---------------------------- MODULE Spec2Model ----------------------------
(***************************************************************************)
(* A model of the search client (index loading, the three cache layers,    *)
(* query), the useSearch hook and the content renderer of uniweb/kit.      *)
(***************************************************************************)
EXTENDS Integers, Sequences, FiniteSets, Bags, TLC

(***************************************************************************)
(* Bounds of the model.                                                    *)
(***************************************************************************)
MaxCalls == 2

MaxRanked == 3

MaxLimit == 2

MaxQueries == 3

MaxContentLen == 2

MaxLevel == 7

MaxText == 3

MaxSpans == 2

MaxContext == 1

MaxItems == 3

(***************************************************************************)
(* JavaScript values used as inputs.  A text is null, undefined or a       *)
(* string (a sequence of characters).                                      *)
(***************************************************************************)
Whitespace == {" ", "\t"}

Null == [t |-> "null", s |-> <<>>]

Undefined == [t |-> "undefined", s |-> <<>>]

Str(s) == [t |-> "string", s |-> s]

RECURSIVE TrimStart(_)
TrimStart(s) ==
  IF s # <<>> /\ Head(s) \in Whitespace THEN TrimStart(Tail(s)) ELSE s

RECURSIVE TrimEnd(_)
TrimEnd(s) ==
  IF s # <<>> /\ s[Len(s)] \in Whitespace
    THEN TrimEnd(SubSeq(s, 1, Len(s) - 1))
    ELSE s

\* Mutant of Trim: the string is tested as it is, without trimming.
Trim_NotTrimmed(text) == IF text.t = "string" THEN text ELSE Undefined

\* query?.trim(): undefined for null and undefined, else the trimmed string.
Trim(text) ==
  IF text.t = "string" THEN Str(TrimEnd(TrimStart(text.s))) ELSE Undefined

\* JavaScript truthiness of a text: only a non-empty string is truthy.
Truthy(text) == text.t = "string" /\ text.s # <<>>

Texts ==
  { Null, Undefined, Str(<<>>), Str(<<"\t", " ">>), Str(<<" ", "a", " ">>) }

(***************************************************************************)
(* Index URLs, clients and the values held by the cache layers.            *)
(***************************************************************************)
URLs == {"u1", "u2"}

NoKey == "-"

\* defaultLimit = 10 of createSearchClient's options
DefaultLimit == 10

\* createSearchClient(website, options): the options a client closes over and
\* the index URL its website resolves to.
Clients ==
  { [url |-> "u1", useStorage |-> TRUE,  opts |-> "default", defaultLimit |-> DefaultLimit],
    [url |-> "u1", useStorage |-> FALSE, opts |-> "custom",  defaultLimit |-> DefaultLimit],
    [url |-> "u2", useStorage |-> TRUE,  opts |-> "default", defaultLimit |-> DefaultLimit] }

Absent == [t |-> "absent", url |-> NoKey]

\* The payload the server returns for an index URL.
Index(u) == [t |-> "index", url |-> u]

\* Raw strings of the durable store: nothing, a string JSON.parse rejects, a
\* JSON value without an entries array, or a stringified payload.
NoItem == [t |-> "none", url |-> NoKey]

Corrupt == [t |-> "corrupt", url |-> NoKey]

NoEntries == [t |-> "noentries", url |-> NoKey]

Stringify(payload) == [t |-> "json", url |-> payload.url]

RawValues == {NoItem, Corrupt, NoEntries} \cup {Stringify(Index(u)) : u \in URLs}

NoFuse == [t |-> "absent", url |-> NoKey, opts |-> NoKey]

\* new Fuse(index.entries || [], mergedFuseOptions)
NewFuse(index, opts) == [t |-> "fuse", url |-> index.url, opts |-> opts]


(***************************************************************************)
(* State.                                                                  *)
(*   indexCache, fuseCache  the two module-level maps, as functions on URLs*)
(*   storage                window.localStorage, a function on its keys    *)
(*   storageOK              whether getStorage() yields a store            *)
(*   calls                  the asynchronous calls in flight, a bag        *)
(*   ready                  history: a query/preload that went through     *)
(*                          getFuse has resolved for the URL and no clear  *)
(*                          call was made since                            *)
(*   last                   history: the operation that made the last step *)
(***************************************************************************)
VARIABLES indexCache, fuseCache, storage, storageOK, calls, ready, last

clientVars == <<indexCache, fuseCache, storage, storageOK, calls, ready, last>>

STORAGE_PREFIX == "uniweb:search:v1:"

StorageKey(cacheKey) == <<STORAGE_PREFIX, cacheKey>>

\* A key of another application in the same store.
ForeignKey == <<"", "theme">>

StorageKeys == {StorageKey(u) : u \in URLs} \cup {ForeignKey}

ZeroAcc ==
  [enabledCheck |-> 0, memRead |-> 0, memWrite |-> 0, storeRead |-> 0,
   storeWrite |-> 0, fetch |-> 0, build |-> 0]

Idle ==
  [pc |-> "idle", kind |-> "none", client |-> CHOOSE c \in Clients : TRUE,
   text |-> Undefined, enabled |-> "notasked",
   acc |-> ZeroAcc, fetched |-> "none", why |-> "none", sawReady |-> FALSE,
   index |-> Absent, fuse |-> NoFuse, result |-> <<>>]

NewCall(kind, client, text) ==
  [Idle EXCEPT !.pc = "start", !.kind = kind, !.client = client,
               !.text = text, !.sawReady = ready[client.url]]

Bump(call, f) == [call EXCEPT !.acc[f] = @ + 1]

\* A step of a call: the call after the step and the in-memory index cache
\* after it.
Step(call, ic) == [call |-> call, ic |-> ic]

(***************************************************************************)
(* The synchronous tail of query(): filters, limit, projection.            *)
(***************************************************************************)
StartsWith(s, prefix) ==
  Len(prefix) <= Len(s) /\ SubSeq(s, 1, Len(prefix)) = prefix

Min(a, b) == IF a <= b THEN a ELSE b

Max(a, b) == IF a >= b THEN a ELSE b

\* Array.prototype.slice(0, end) for an integer end.
Slice0(seq, end) ==
  LET stop == IF end < 0 THEN Max(Len(seq) + end, 0) ELSE Min(end, Len(seq))
  IN SubSeq(seq, 1, stop)

NoLimit == [t |-> "undefined", n |-> 0]

Num(n) == [t |-> "number", n |-> n]

NoOptions == [limit |-> NoLimit, type |-> Undefined, route |-> Undefined]

\* results.filter(({ item }) => item.type === type), applied if (type)
TypeFilter(results, type) ==
  IF Truthy(type)
    THEN SelectSeq(results, LAMBDA m : m.item.type = type)
    ELSE results

\* results.filter(({ item }) => item.route?.startsWith(route)), applied if (route)
RouteFilter(results, route) ==
  IF Truthy(route)
    THEN SelectSeq(results,
           LAMBDA m : m.item.route.t = "string"
                      /\ StartsWith(m.item.route.s, route.s))
    ELSE results

\* results.slice(0, limit), limit defaulting to the client's defaultLimit
ApplyLimit(results, limit, defaultLimit) ==
  Slice0(results, IF limit.t = "undefined" THEN defaultLimit ELSE limit.n)

\* The object query() builds for one match (identity and navigation fields).
ToResult(m) == [id |-> m.item.id, type |-> m.item.type, route |-> m.item.route]

\* Mutant of QueryResults: the list is cut to the limit before it is filtered.
QueryResults_LimitFirst(ranked, queryOptions, defaultLimit) ==
  LET limited == ApplyLimit(ranked, queryOptions.limit, defaultLimit)
      typed == TypeFilter(limited, queryOptions.type)
      routed == RouteFilter(typed, queryOptions.route)
  IN [i \in 1..Len(routed) |-> ToResult(routed[i])]

QueryResults(ranked, queryOptions, defaultLimit) ==
  LET typed == TypeFilter(ranked, queryOptions.type)
      routed == RouteFilter(typed, queryOptions.route)
      limited == ApplyLimit(routed, queryOptions.limit, defaultLimit)
  IN [i \in 1..Len(limited) |-> ToResult(limited[i])]

PageType == Str(<<"p">>)

SectionType == Str(<<"s">>)

Match(id, type, route) == [item |-> [id |-> id, type |-> type, route |-> route]]

\* fuse.search(trimmed) of the external Fuse.js: the ranked matches of an index.
FuseSearch(fuse, trimmed) ==
  << Match(1, PageType, Str(<<"/", "a">>)),
     Match(2, SectionType, Str(<<"/", "a">>)) >>

(***************************************************************************)
(* getStorage / loadFromStorage / saveToStorage                            *)
(***************************************************************************)
\* getStorage(): the store, or null (FALSE) when window is missing or the
\* access to window.localStorage throws.
GetStorage == storageOK

\* JSON.parse(raw) followed by the Array.isArray(parsed.entries) test; both a
\* parse error and a missing entries array give null (Absent).
ParseStored(raw) == IF raw.t = "json" THEN Index(raw.url) ELSE Absent

\* loadFromStorage(cacheKey).  getItem sits outside the try block: when it
\* throws, the exception leaves the function.
LoadFromStorage(cacheKey, getItemThrows) ==
  IF ~GetStorage THEN [r |-> "null", v |-> Absent, read |-> FALSE]
  ELSE IF getItemThrows THEN [r |-> "throw", v |-> Absent, read |-> TRUE]
  ELSE LET raw == storage[StorageKey(cacheKey)]
       IN IF raw = NoItem THEN [r |-> "null", v |-> Absent, read |-> TRUE]
          ELSE IF ParseStored(raw) # Absent
            THEN [r |-> "hit", v |-> ParseStored(raw), read |-> TRUE]
            ELSE [r |-> "null", v |-> Absent, read |-> TRUE]

\* saveToStorage(cacheKey, payload): the store after it; a throwing setItem
\* (quota) is caught and leaves the store as it was.
SaveToStorage(cacheKey, payload, setItemThrows) ==
  IF ~GetStorage \/ setItemThrows THEN storage
  ELSE [storage EXCEPT ![StorageKey(cacheKey)] = Stringify(payload)]

\* The rest of query() and preload() once getFuse resolves: nothing else
\* touches the caches in between, and the call settles.
AfterFuse(call) ==
  IF call.kind = "query"
    THEN [call EXCEPT !.pc = "resolved",
                      !.result = QueryResults(FuseSearch(call.fuse, Trim(call.text)),
                                              NoOptions, call.client.defaultLimit)]
    ELSE [call EXCEPT !.pc = "resolved"]

(***************************************************************************)
(* loadSearchIndex, getFuse, query, preload: the synchronous part of each, *)
(* up to its first suspension.                                             *)
(***************************************************************************)
\* fetch(indexUrl, {cache: 'force-cache'}) is issued; the call suspends.
FetchStart(call) ==
  Step([Bump(call, "fetch") EXCEPT !.pc = "fetching", !.fetched = "pending"],
       indexCache)

\* Mutant of LoadSearchIndexSync: the durable store is not consulted.
LoadSearchIndexSync_SkipsStore(call, getItemThrows) ==
  LET cacheKey == call.client.url
      c1 == Bump(call, "memRead")
  IN IF indexCache[cacheKey] # Absent
       THEN Step([c1 EXCEPT !.pc = "haveIndex", !.index = indexCache[cacheKey]],
                 indexCache)
       ELSE FetchStart(c1)

LoadSearchIndexSync(call, getItemThrows) ==
  LET cacheKey == call.client.url
      c1 == Bump(call, "memRead")
  IN IF indexCache[cacheKey] # Absent
       THEN Step([c1 EXCEPT !.pc = "haveIndex", !.index = indexCache[cacheKey]],
                 indexCache)
     ELSE IF call.client.useStorage
       THEN LET got == LoadFromStorage(cacheKey, getItemThrows)
                c2 == IF got.read THEN Bump(c1, "storeRead") ELSE c1
            IN IF got.r = "throw"
                 THEN Step([c2 EXCEPT !.pc = "rejected", !.why = "store"],
                           indexCache)
               ELSE IF got.r = "hit"
                 THEN Step([Bump(c2, "memWrite") EXCEPT
                              !.pc = "haveIndex", !.index = got.v],
                           [indexCache EXCEPT ![cacheKey] = got.v])
               ELSE FetchStart(c2)
     ELSE FetchStart(c1)

\* Mutant of GetFuseSync: the fuzzy-structure cache is not consulted.
GetFuseSync_NoCacheCheck(call, getItemThrows) ==
  LoadSearchIndexSync(Bump(call, "memRead"), getItemThrows)

GetFuseSync(call, getItemThrows) ==
  LET cacheKey == call.client.url
      c1 == Bump(call, "memRead")
  IN IF fuseCache[cacheKey] # NoFuse
       THEN Step(AfterFuse([c1 EXCEPT !.fuse = fuseCache[cacheKey]]), indexCache)
       ELSE LoadSearchIndexSync(c1, getItemThrows)

\* website.isSearchEnabled(), answered by the data source.
AskEnabled(call, enabled) ==
  [Bump(call, "enabledCheck") EXCEPT
     !.enabled = IF enabled THEN "yes" ELSE "no"]

\* Mutant of QuerySync: the answer of the enabled check is ignored.
QuerySync_IgnoresDisabled(call, enabled, getItemThrows) ==
  IF ~Truthy(Trim(call.text))
    THEN Step([call EXCEPT !.pc = "resolved", !.result = <<>>], indexCache)
    ELSE GetFuseSync(AskEnabled(call, enabled), getItemThrows)

QuerySync(call, enabled, getItemThrows) ==
  IF ~Truthy(Trim(call.text))
    THEN Step([call EXCEPT !.pc = "resolved", !.result = <<>>], indexCache)
  ELSE LET c1 == AskEnabled(call, enabled)
       IN IF ~enabled
            THEN Step([c1 EXCEPT !.pc = "resolved", !.result = <<>>], indexCache)
            ELSE GetFuseSync(c1, getItemThrows)

PreloadSync(call, enabled, getItemThrows) ==
  LET c1 == AskEnabled(call, enabled)
  IN IF ~enabled
       THEN Step([c1 EXCEPT !.pc = "resolved"], indexCache)
       ELSE GetFuseSync(c1, getItemThrows)

(***************************************************************************)
(* The operations of the search client.  A call that settles leaves its    *)
(* slot; its final record is kept in last.call until the next step.        *)
(***************************************************************************)
Settled(call) == call.pc \in {"resolved", "rejected"}

\* A query or preload that went through getFuse and resolved.
LoadedFuse(call) ==
  call.pc = "resolved" /\ call.kind \in {"query", "preload"} /\ call.fuse # NoFuse

\* A direct loadSearchIndex call has nothing left to do once it holds the index.
Returned(step) ==
  IF step.call.kind = "load" /\ step.call.pc = "haveIndex"
    THEN Step([step.call EXCEPT !.pc = "resolved"], step.ic)
    ELSE step

InFlight == BagToSet(calls)

\* The step of a call: it replaces the record `before` (Idle for a new call).
Commit(before, step0) ==
  LET step == Returned(step0)
      others == IF before = Idle THEN calls ELSE calls (-) SetToBag({before})
  IN
  /\ indexCache' = step.ic
  /\ calls' = IF Settled(step.call) THEN others
                                    ELSE others (+) SetToBag({step.call})
  /\ last' = [op |-> IF Settled(step.call) THEN "end" ELSE "step",
              key |-> step.call.client.url,
              call |-> IF Settled(step.call) THEN step.call ELSE Idle,
              had |-> FALSE]
  /\ ready' = IF LoadedFuse(step.call)
                THEN [ready EXCEPT ![step.call.client.url] = TRUE]
                ELSE ready

\* The answers of the environment a call can meet: the data source's enabled
\* flag, asked only for a text that is not blank, and whether getItem throws,
\* met only when the durable store is read.
EnabledAnswers(text) == IF Truthy(Trim(text)) THEN BOOLEAN ELSE {TRUE}

GetItemAnswers(client) ==
  IF client.useStorage /\ GetStorage /\ indexCache[client.url] = Absent
    THEN BOOLEAN
    ELSE {FALSE}

\* At most MaxCalls calls are in flight at a time.
CanStart == BagCardinality(calls) < MaxCalls

Query ==
  /\ CanStart
  /\ \E client \in Clients, text \in Texts :
     \E enabled \in EnabledAnswers(text), getItemThrows \in GetItemAnswers(client) :
       Commit(Idle, QuerySync(NewCall("query", client, text), enabled, getItemThrows))
  /\ UNCHANGED <<fuseCache, storage, storageOK>>

Preload ==
  /\ CanStart
  /\ \E client \in Clients, enabled \in BOOLEAN :
     \E getItemThrows \in GetItemAnswers(client) :
       Commit(Idle, PreloadSync(NewCall("preload", client, Undefined), enabled,
                             getItemThrows))
  /\ UNCHANGED <<fuseCache, storage, storageOK>>

\* loadSearchIndex(indexUrl, {useStorage}) called directly, cacheKey defaulted.
LoadSearchIndex ==
  /\ CanStart
  /\ \E client \in Clients :
     \E getItemThrows \in GetItemAnswers(client) :
       Commit(Idle, LoadSearchIndexSync(NewCall("load", client, Undefined),
                                     getItemThrows))
  /\ UNCHANGED <<fuseCache, storage, storageOK>>

FetchOutcomes == {"ok", "http", "net", "body"}

\* Mutant of AfterFetch: a failed fetch is tried once more.
AfterFetch_Retry(call, outcome) ==
  IF outcome # "ok" /\ call.acc.fetch < 2
    THEN Step([Bump(call, "fetch") EXCEPT !.fetched = outcome], indexCache)
  ELSE IF outcome # "ok"
    THEN Step([call EXCEPT !.fetched = outcome, !.pc = "rejected",
                           !.why = "fetch"], indexCache)
  ELSE Step([Bump(call, "memWrite") EXCEPT
               !.fetched = outcome, !.pc = "haveIndex",
               !.index = Index(call.client.url)],
            [indexCache EXCEPT ![call.client.url] = Index(call.client.url)])

\* Mutant of AfterFetch: a failed fetch leaves a payload in the memory cache.
AfterFetch_CachesFailure(call, outcome) ==
  IF outcome # "ok"
    THEN Step([call EXCEPT !.fetched = outcome, !.pc = "rejected",
                           !.why = "fetch"],
              [indexCache EXCEPT ![call.client.url] = Index(call.client.url)])
    ELSE Step([Bump(call, "memWrite") EXCEPT
                 !.fetched = outcome, !.pc = "haveIndex",
                 !.index = Index(call.client.url)],
              [indexCache EXCEPT ![call.client.url] = Index(call.client.url)])

\* The rest of loadSearchIndex once fetch settles: a network error ("net"), a
\* response that is not ok ("http") and a body that is not JSON ("body") throw;
\* otherwise the payload is cached in memory and, with useStorage, saved.
AfterFetch(call, outcome) ==
  LET cacheKey == call.client.url
      payload == Index(call.client.url)
      c1 == [call EXCEPT !.fetched = outcome]
  IN IF outcome # "ok"
       THEN Step([c1 EXCEPT !.pc = "rejected", !.why = "fetch"], indexCache)
       ELSE Step([(IF call.client.useStorage /\ GetStorage
                     THEN Bump(Bump(c1, "memWrite"), "storeWrite")
                     ELSE Bump(c1, "memWrite"))
                    EXCEPT !.pc = "haveIndex", !.index = payload],
                 [indexCache EXCEPT ![cacheKey] = payload])

FetchSettles(call) ==
  /\ call.pc = "fetching"
  /\ \E outcome \in FetchOutcomes :
     \E setItemThrows \in (IF outcome = "ok" /\ call.client.useStorage
                             /\ GetStorage THEN BOOLEAN ELSE {FALSE}) :
       /\ Commit(call, AfterFetch(call, outcome))
       /\ storage' = IF outcome = "ok" /\ call.client.useStorage
                       THEN SaveToStorage(call.client.url,
                                          Index(call.client.url), setItemThrows)
                       ELSE storage
  /\ UNCHANGED <<fuseCache, storageOK>>

\* The rest of getFuse once loadSearchIndex resolves: import('fuse.js'), build
\* the structure, cache it.
BuildFuse(call) ==
  [Bump(Bump(call, "build"), "memWrite") EXCEPT
     !.fuse = NewFuse(call.index, call.client.opts)]

\* Mutant of AfterIndex: a structure cached meanwhile is reused, not rebuilt.
AfterIndex_Dedup(call, importOk) ==
  IF ~importOk
    THEN [call EXCEPT !.pc = "rejected", !.why = "import"]
  ELSE IF fuseCache[call.client.url] # NoFuse
    THEN AfterFuse([call EXCEPT !.fuse = fuseCache[call.client.url]])
    ELSE AfterFuse(BuildFuse(call))

AfterIndex(call, importOk) ==
  IF ~importOk
    THEN [call EXCEPT !.pc = "rejected", !.why = "import"]
    ELSE AfterFuse(BuildFuse(call))

ImportSettles(call) ==
  /\ call.pc = "haveIndex"
  /\ \E importOk \in BOOLEAN :
       LET after == AfterIndex(call, importOk)
       IN /\ Commit(call, Step(after, indexCache))
          /\ fuseCache' = IF importOk
                            THEN [fuseCache EXCEPT ![call.client.url] = after.fuse]
                            ELSE fuseCache
  /\ UNCHANGED <<storage, storageOK>>

\* The prefixed keys of the store, as the loop over storage.key(i) collects them.
KeysToRemove == {k \in StorageKeys : k[1] = STORAGE_PREFIX /\ storage[k] # NoItem}

\* Mutant of ClearedIndex: the whole map is cleared whatever the key.
ClearedIndex_All(cacheKey) == [u \in URLs |-> Absent]

\* Mutant of ClearedFuse: the fuzzy-structure cache is left as it is.
ClearedFuse_Forgotten(cacheKey) == fuseCache

\* clearSearchCache(cacheKey); NoKey stands for a call without argument.
ClearedIndex(cacheKey) ==
  IF cacheKey # NoKey
    THEN [indexCache EXCEPT ![cacheKey] = Absent]
    ELSE [u \in URLs |-> Absent]

ClearedFuse(cacheKey) ==
  IF cacheKey # NoKey
    THEN [fuseCache EXCEPT ![cacheKey] = NoFuse]
    ELSE [u \in URLs |-> NoFuse]

ClearedStorage(cacheKey) ==
  IF ~GetStorage THEN storage
  ELSE IF cacheKey # NoKey
    THEN [storage EXCEPT ![StorageKey(cacheKey)] = NoItem]
    ELSE [k \in StorageKeys |-> IF k \in KeysToRemove THEN NoItem ELSE storage[k]]

\* History: every layer held an entry for the key(s) about to be cleared.
HeldBy(cacheKey) ==
  \A u \in URLs :
    (cacheKey \in {u, NoKey}) =>
      /\ indexCache[u] # Absent
      /\ fuseCache[u] # NoFuse
      /\ storage[StorageKey(u)] # NoItem

ClearSearchCache(cacheKey) ==
  /\ indexCache' = ClearedIndex(cacheKey)
  /\ fuseCache' = ClearedFuse(cacheKey)
  /\ storage' = ClearedStorage(cacheKey)
  /\ ready' = [u \in URLs |-> FALSE]
  /\ last' = [op |-> "clear", key |-> cacheKey, call |-> Idle,
              had |-> HeldBy(cacheKey)]
  /\ UNCHANGED <<calls, storageOK>>

\* client.clearCache(): clearSearchCache(website.getSearchIndexUrl())
ClearCache(client) == ClearSearchCache(client.url)

(***************************************************************************)
(* The tail of query() on its own: the ranked matches fuse.search returned,*)
(* the query options and the client's defaultLimit are drawn at the start; *)
(* RunQuery applies the filters, the limit and the projection.             *)
(***************************************************************************)
VARIABLES qRanked, qOptions, qDefaultLimit, qResults

queryVars == <<qRanked, qOptions, qDefaultLimit, qResults>>

ItemTypes == {PageType, SectionType}

\* item.route: a route, or undefined for an entry without one.
ItemRoutes == {Str(<<"/", "a">>), Str(<<"/", "b">>), Undefined}

\* Ranked lists of 0..MaxRanked matches; the id of a match is its rank.
RankedLists ==
  UNION { { [i \in 1..n |-> Match(i, f[i][1], f[i][2])] :
              f \in [1..n -> ItemTypes \X ItemRoutes] } : n \in 0..MaxRanked }

LimitOptions == {NoLimit} \cup {Num(n) : n \in 0..MaxLimit}

TypeOptions == {Undefined, Str(<<>>), PageType}

RouteOptions == {Undefined, Str(<<"/">>), Str(<<"/", "a">>)}

\* defaultLimit of the client: the library default or an override.
DefaultLimits == {DefaultLimit, 1, 2}

NotRun == [done |-> FALSE, value |-> <<>>]

InitQuery ==
  /\ qRanked \in RankedLists
  /\ qOptions \in [limit : LimitOptions, type : TypeOptions, route : RouteOptions]
  /\ qDefaultLimit \in DefaultLimits
  /\ qResults = NotRun

RunQuery ==
  /\ ~qResults.done
  /\ qResults' = [done |-> TRUE,
                  value |-> QueryResults(qRanked, qOptions, qDefaultLimit)]
  /\ UNCHANGED <<qRanked, qOptions, qDefaultLimit>>

IdleQuery ==
  /\ qRanked = <<>>
  /\ qOptions = NoOptions
  /\ qDefaultLimit = DefaultLimit
  /\ qResults = NotRun

(***************************************************************************)
(* The useSearch hook.  Every query() call gets the next number; a call    *)
(* that reaches the debounce makes a searchId of its own, modelled by that *)
(* number, and its timer carries the same number.                          *)
(*   results, isLoading, error, lastQuery   the hook's React state         *)
(*   pendingRef, timeoutRef                 the two refs (0 stands for null)*)
(*   searches                               per call: where it stands      *)
(*   issued                                 history: number of calls made  *)
(*   hookLast                               history: the last step         *)
(***************************************************************************)
VARIABLES results, isLoading, error, lastQuery, pendingRef, timeoutRef,
          searches, issued, hookLast

hookVars == <<results, isLoading, error, lastQuery, pendingRef, timeoutRef,
              searches, issued, hookLast>>

SearchIds == 1..MaxQueries

HookTexts == {Null, Str(<<" ">>), Str(<<"a">>), Str(<<"b", " ">>)}

\* searchQuery?.trim() || ''
TrimOrEmpty(text) == IF Truthy(Trim(text)) THEN Trim(text) ELSE Str(<<>>)

\* What client.query(trimmed, queryOptions) resolves to.
ClientResults(trimmed) == << [id |-> 1, query |-> trimmed.s] >>

NoSearch == [stage |-> "none", text |-> Str(<<>>)]

\* clearTimeout(timeoutRef.current): a timer that has not fired yet is
\* cancelled, and the promise of its call stays pending for ever.
ClearTimeout(all) ==
  IF timeoutRef # 0 /\ all[timeoutRef].stage = "timer"
    THEN [all EXCEPT ![timeoutRef].stage = "cancelled"]
    ELSE all

HookStep(op, id) ==
  hookLast' = [op |-> op, id |-> id,
               changed |-> (results' # results \/ error' # error)]

\* query(searchQuery, queryOptions), up to the promise it returns.
HookQuery ==
  /\ issued < MaxQueries
  /\ \E text \in HookTexts, enabled \in BOOLEAN :
       LET id == issued + 1
           trimmed == TrimOrEmpty(text)
           cleared == ClearTimeout(searches)
       IN /\ issued' = id
          /\ lastQuery' = trimmed
          /\ IF ~Truthy(trimmed)
               THEN /\ results' = <<>>
                    /\ isLoading' = FALSE
                    /\ error' = "null"
                    /\ timeoutRef' = 0
                    /\ searches' = [cleared EXCEPT ![id] =
                                      [stage |-> "returned", text |-> trimmed]]
                    /\ UNCHANGED pendingRef
             ELSE IF ~enabled
               THEN /\ error' = "disabled"
                    /\ timeoutRef' = 0
                    /\ searches' = [cleared EXCEPT ![id] =
                                      [stage |-> "returned", text |-> trimmed]]
                    /\ UNCHANGED <<results, isLoading, pendingRef>>
             ELSE /\ pendingRef' = id
                  /\ timeoutRef' = id
                  /\ searches' = [cleared EXCEPT ![id] =
                                    [stage |-> "timer", text |-> trimmed]]
                  /\ UNCHANGED <<results, isLoading, error>>
          /\ HookStep("query", id)

\* The debounce timer of call id fires.
TimerFires(id) ==
  /\ searches[id].stage = "timer"
  /\ IF pendingRef # id
       THEN /\ searches' = [searches EXCEPT ![id].stage = "resolved"]
            /\ UNCHANGED <<isLoading, error>>
       ELSE /\ isLoading' = TRUE
            /\ error' = "null"
            /\ searches' = [searches EXCEPT ![id].stage = "querying"]
  /\ UNCHANGED <<results, lastQuery, pendingRef, timeoutRef, issued>>
  /\ HookStep("timer", id)

\* Whether the continuation after await client.query(...) drops its result.
Stale(id) == pendingRef # id

\* client.query of call id settles: it resolves (ok) or rejects.
QuerySettles(id) ==
  /\ searches[id].stage = "querying"
  /\ \E ok \in BOOLEAN :
       IF Stale(id)
         THEN UNCHANGED <<results, isLoading, error>>
       ELSE IF ok
         THEN /\ results' = ClientResults(searches[id].text)
              /\ isLoading' = FALSE
              /\ UNCHANGED error
       ELSE /\ error' = "failed"
            /\ results' = <<>>
            /\ isLoading' = FALSE
  /\ searches' = [searches EXCEPT ![id].stage = "resolved"]
  /\ UNCHANGED <<lastQuery, pendingRef, timeoutRef, issued>>
  /\ HookStep("settle", id)

\* clear()
HookClear ==
  /\ searches' = ClearTimeout(searches)
  /\ timeoutRef' = 0
  /\ pendingRef' = 0
  /\ results' = <<>>
  /\ lastQuery' = Str(<<>>)
  /\ error' = "null"
  /\ isLoading' = FALSE
  /\ UNCHANGED issued
  /\ HookStep("clear", 0)

InitHook ==
  /\ results = <<>>
  /\ isLoading = FALSE
  /\ error = "null"
  /\ lastQuery = Str(<<>>)
  /\ pendingRef = 0
  /\ timeoutRef = 0
  /\ searches = [id \in SearchIds |-> NoSearch]
  /\ issued = 0
  /\ hookLast = [op |-> "init", id |-> 0, changed |-> FALSE]

(***************************************************************************)
(* The content renderer (Render, RenderNode, extractText, generateId,      *)
(* renderList, Table).  JavaScript values are tagged records: undefined,   *)
(* null, a string (a sequence of characters), a number, an array, or an    *)
(* object with the fields of a node, a mark or an attrs object.  An        *)
(* evaluation yields a value or throws.                                    *)
(***************************************************************************)
JUndef == [k |-> "undefined"]

JNull == [k |-> "null"]

JStr(s) == [k |-> "str", s |-> s]

JNum(n) == [k |-> "num", n |-> n]

JArr(items) == [k |-> "arr", items |-> items]

Node(type, attrs, content) ==
  [k |-> "obj", type |-> type, attrs |-> attrs, content |-> content]

TextNode(text, marks) ==
  [k |-> "obj", type |-> "text", text |-> text, marks |-> marks]

Attrs(level, href) == [k |-> "obj", level |-> level, href |-> href]

Mark(type, attrs) == [k |-> "obj", type |-> type, attrs |-> attrs]

Nullish(v) == v.k \in {"undefined", "null"}

\* !v
Falsy(v) ==
  \/ Nullish(v)
  \/ v.k = "str" /\ v.s = <<>>
  \/ v.k = "num" /\ v.n = 0

\* v.f for a v that is not nullish: undefined when v has no such property.
Get(v, f) == IF v.k = "obj" /\ f \in DOMAIN v THEN v[f] ELSE JUndef

\* The type of a node or mark, "undefined" when it has none.
TypeOf(v) == IF v.k = "obj" /\ "type" \in DOMAIN v THEN v.type ELSE "undefined"

\* v?.f
OptGet(v, f) == IF Nullish(v) THEN JUndef ELSE Get(v, f)

Ok(v) == [threw |-> FALSE, val |-> v]

Threw == [threw |-> TRUE, val |-> JUndef]

Digits == <<"0", "1", "2", "3", "4", "5", "6", "7", "8", "9">>

\* String(v), as Array.prototype.join and template literals convert a value.
ToStr(v) ==
  IF v.k = "str" THEN v.s
  ELSE IF v.k = "num" /\ v.n \in 0..9 THEN <<Digits[v.n + 1]>>
  ELSE IF v.k = "num" /\ -v.n \in 1..9 THEN <<"-", Digits[1 - v.n]>>
  ELSE IF v.k = "obj" THEN <<"[object Object]">>
  ELSE <<v.k>>

RECURSIVE Flatten(_)
Flatten(seqs) == IF seqs = <<>> THEN <<>> ELSE Head(seqs) \o Flatten(Tail(seqs))

\* extractText(node)
RECURSIVE ExtractText(_)
ExtractText(node) ==
  IF Falsy(node) THEN Ok(JStr(<<>>))
  ELSE IF node.k = "str" THEN Ok(node)
  ELSE IF ~Falsy(Get(node, "text")) THEN Ok(Get(node, "text"))
  ELSE IF ~Falsy(Get(node, "content"))
    THEN LET content == Get(node, "content")
         IN IF content.k # "arr" THEN Threw   \* content.map is not a function
            ELSE LET parts == [i \in 1..Len(content.items) |->
                                 ExtractText(content.items[i])]
                 IN IF \E i \in 1..Len(parts) : parts[i].threw THEN Threw
                    ELSE Ok(JStr(Flatten([i \in 1..Len(parts) |->
                                            ToStr(parts[i].val)])))
  ELSE Ok(JStr(<<>>))

\* content?.map(extractText).join('') || ''
JoinedText(content) ==
  IF Nullish(content) THEN Ok(JStr(<<>>))
  ELSE IF content.k # "arr" THEN Threw
  ELSE ExtractText([k |-> "obj", content |-> content])

LowerCase == [c \in {"A", "B"} |-> IF c = "A" THEN "a" ELSE "b"]

ToLower(c) == IF c \in DOMAIN LowerCase THEN LowerCase[c] ELSE c

AlphaNum == {"a", "b", "0", "1", "2", "3", "4", "5", "6", "7", "8", "9"}

\* .replace(/[^a-z0-9]+/g, '-'): a run of other characters becomes one hyphen.
RECURSIVE ReplaceRuns(_, _)
ReplaceRuns(s, inRun) ==
  IF s = <<>> THEN <<>>
  ELSE IF Head(s) \in AlphaNum THEN <<Head(s)>> \o ReplaceRuns(Tail(s), FALSE)
  ELSE IF inRun THEN ReplaceRuns(Tail(s), TRUE)
  ELSE <<"-">> \o ReplaceRuns(Tail(s), TRUE)

\* .replace(/^-|-$/g, ''): one hyphen at the start and one at the end go.
StripHyphens(s) ==
  LET a == IF s # <<>> /\ Head(s) = "-" THEN Tail(s) ELSE s
  IN IF a # <<>> /\ a[Len(a)] = "-" THEN SubSeq(a, 1, Len(a) - 1) ELSE a

\* Mutant of GenerateId: the hyphens at the two ends are kept.
GenerateId_NoStrip(s) ==
  ReplaceRuns([i \in 1..Len(s) |-> ToLower(s[i])], FALSE)

\* generateId(text)
GenerateId(s) ==
  StripHyphens(ReplaceRuns([i \in 1..Len(s) |-> ToLower(s[i])], FALSE))

\* A rendered unit: an element with its value (text or markup), its children,
\* and for a heading its level and anchor id.
Unit(tag, val, kids) ==
  [tag |-> tag, val |-> val, kids |-> kids, level |-> 0, id |-> <<>>]

UOk(units) == [threw |-> FALSE, units |-> units]

UThrew == [threw |-> TRUE, units |-> <<>>]

\* One mark applied to the text built so far: a template literal around it,
\* or the text as it is for a mark of another type.
ApplyMark(text, mark) ==
  LET type == TypeOf(mark)
  IN IF type \in {"bold", "strong"}
       THEN JStr(<<"<strong>">> \o ToStr(text) \o <<"</strong>">>)
     ELSE IF type \in {"italic", "em"}
       THEN JStr(<<"<em>">> \o ToStr(text) \o <<"</em>">>)
     ELSE IF type = "code"
       THEN JStr(<<"<code>">> \o ToStr(text) \o <<"</code>">>)
     ELSE IF type = "link"
       THEN LET href == OptGet(Get(mark, "attrs"), "href")
            IN JStr(<<"<a href=">>
                      \o (IF Falsy(href) THEN <<"#">> ELSE ToStr(href))
                      \o <<">">> \o ToStr(text) \o <<"</a>">>)
     ELSE text

\* Mutant of ApplyMarks: the marks are applied from the last to the first.
RECURSIVE ApplyMarks_Reversed(_, _)
ApplyMarks_Reversed(text, marks) ==
  IF marks = <<>> THEN Ok(text)
  ELSE IF Nullish(marks[Len(marks)]) THEN Threw
  ELSE ApplyMarks_Reversed(ApplyMark(text, marks[Len(marks)]),
                           SubSeq(marks, 1, Len(marks) - 1))

\* node.marks.forEach(...): mark.type of a null mark throws.
RECURSIVE ApplyMarks(_, _)
ApplyMarks(text, marks) ==
  IF marks = <<>> THEN Ok(text)
  ELSE IF Nullish(Head(marks)) THEN Threw
  ELSE ApplyMarks(ApplyMark(text, Head(marks)), Tail(marks))

\* case 'text'
RenderText(node) ==
  LET text == IF Falsy(Get(node, "text")) THEN JStr(<<>>) ELSE Get(node, "text")
      marks == Get(node, "marks")
      marked == IF Falsy(marks) THEN Ok(text)
                ELSE IF marks.k # "arr" THEN Threw  \* forEach is not a function
                ELSE ApplyMarks(text, marks.items)
  IN IF marked.threw THEN UThrew ELSE UOk(<<Unit("span", marked.val, <<>>)>>)

\* v?.[0]: the first element of an array, the first character of a string.
OptFirst(v) ==
  IF v.k = "arr" /\ v.items # <<>> THEN v.items[1]
  ELSE IF v.k = "str" /\ v.s # <<>> THEN JStr(<<v.s[1]>>)
  ELSE JUndef

\* Table({ content })
TableCell(cell) ==
  IF Nullish(cell) THEN UThrew              \* cell.type of null
  ELSE LET para == OptFirst(Get(cell, "content"))
           leaf == OptFirst(OptGet(para, "content"))
           text == OptGet(leaf, "text")
       IN UOk(<<Unit(IF TypeOf(cell) = "tableHeader" THEN "th" ELSE "td",
                     IF Falsy(text) THEN JStr(<<>>) ELSE text, <<>>)>>)

TableRow(row) ==
  IF Nullish(row) THEN UThrew               \* row.content of null
  ELSE LET content == Get(row, "content")
       IN IF Nullish(content) THEN UOk(<<Unit("tr", JUndef, <<>>)>>)
          ELSE IF content.k # "arr" THEN UThrew
          ELSE LET cells == [i \in 1..Len(content.items) |->
                               TableCell(content.items[i])]
               IN IF \E i \in 1..Len(cells) : cells[i].threw THEN UThrew
                  ELSE UOk(<<Unit("tr", JUndef,
                                  Flatten([i \in 1..Len(cells) |-> cells[i].units]))>>)

Table(content) ==
  IF Falsy(content) \/ content.k # "arr" THEN UOk(<<>>)
  ELSE LET rows == [i \in 1..Len(content.items) |-> TableRow(content.items[i])]
       IN IF \E i \in 1..Len(rows) : rows[i].threw THEN UThrew
          ELSE UOk(<<Unit("table", JUndef,
                          Flatten([i \in 1..Len(rows) |-> rows[i].units]))>>)

RECURSIVE RenderNode(_)

\* items.map(child => <RenderNode node={child} />)
RenderEach(items) ==
  LET each == [i \in 1..Len(items) |-> RenderNode(items[i])]
  IN IF \E i \in 1..Len(each) : each[i].threw THEN UThrew
     ELSE UOk(Flatten([i \in 1..Len(each) |-> each[i].units]))

\* <li>{item.content?.map(...)}</li>
ListItem(item) ==
  IF Nullish(item) THEN UThrew              \* item.content of null
  ELSE LET content == Get(item, "content")
           kids == IF Nullish(content) THEN UOk(<<>>)
                   ELSE IF content.k # "arr" THEN UThrew
                   ELSE RenderEach(content.items)
       IN IF kids.threw THEN UThrew ELSE UOk(<<Unit("li", JUndef, kids.units)>>)

\* renderList(items, ordered)
RenderList(items, ordered) ==
  LET tag == IF ordered THEN "ol" ELSE "ul"
  IN IF Nullish(items) THEN UOk(<<Unit(tag, JUndef, <<>>)>>)
     ELSE IF items.k # "arr" THEN UThrew
     ELSE LET lis == [i \in 1..Len(items.items) |-> ListItem(items.items[i])]
          IN IF \E i \in 1..Len(lis) : lis[i].threw THEN UThrew
             ELSE UOk(<<Unit(tag, JUndef,
                             Flatten([i \in 1..Len(lis) |-> lis[i].units]))>>)

\* attrs?.level || 1
LevelOf(attrs) ==
  LET level == OptGet(attrs, "level") IN IF Falsy(level) THEN 1 ELSE level.n

\* Math.min(level, 6): the number after "h" in the heading's tag.
HeadingLevel(level) == Min(level, 6)

\* RenderNode({ node })
RenderNode(node) ==
  IF Falsy(node) THEN UOk(<<>>)
  ELSE
    LET type == TypeOf(node)
        attrs == Get(node, "attrs")
        content == Get(node, "content")
    IN CASE type = "paragraph" ->
              LET html == ExtractText(node)
              IN IF html.threw THEN UThrew
                 ELSE IF Falsy(html.val) THEN UOk(<<>>)
                 ELSE UOk(<<Unit("p", html.val, <<>>)>>)
         [] type = "heading" ->
              LET text == ExtractText(node)
              IN IF text.threw THEN UThrew
                 ELSE IF text.val.k # "str" THEN UThrew  \* no toLowerCase
                 ELSE UOk(<<[Unit("h", text.val, <<>>) EXCEPT
                               !.level = HeadingLevel(LevelOf(attrs)),
                               !.id = GenerateId(text.val.s)]>>)
         [] type = "image" -> UOk(<<Unit("figure", JUndef, <<>>)>>)
         [] type = "video" -> UOk(<<Unit("video", JUndef, <<>>)>>)
         [] type = "codeBlock" ->
              LET code == ExtractText(node)
              IN IF code.threw THEN UThrew
                 ELSE UOk(<<Unit("code", code.val, <<>>)>>)
         [] type \in {"warning", "alert"} ->
              LET alertContent == JoinedText(content)
              IN IF alertContent.threw THEN UThrew
                 ELSE UOk(<<Unit("alert", alertContent.val, <<>>)>>)
         [] type = "blockquote" ->
              LET kids == IF Nullish(content) THEN UOk(<<>>)
                          ELSE IF content.k # "arr" THEN UThrew
                          ELSE RenderEach(content.items)
              IN IF kids.threw THEN UThrew
                 ELSE UOk(<<Unit("blockquote", JUndef, kids.units)>>)
         [] type = "bulletList" -> RenderList(content, FALSE)
         [] type = "orderedList" -> RenderList(content, TRUE)
         [] type = "table" -> Table(content)
         [] type = "details" ->
              LET detailsContent == JoinedText(content)
              IN IF detailsContent.threw THEN UThrew
                 ELSE UOk(<<Unit("details", detailsContent.val, <<>>)>>)
         [] type \in {"horizontalRule", "divider"} ->
              UOk(<<Unit("hr", JUndef, <<>>)>>)
         [] type = "button" ->
              LET text == ExtractText(node)
                  label == OptGet(attrs, "label")
              IN IF text.threw THEN UThrew
                 ELSE UOk(<<Unit("a",
                                 IF ~Falsy(text.val) THEN text.val
                                 ELSE IF ~Falsy(label) THEN label
                                 ELSE JStr(<<"Button">>), <<>>)>>)
         [] type = "text" -> RenderText(node)
         [] OTHER ->
              IF ~Falsy(content) /\ content.k = "arr"
                THEN RenderEach(content.items)
                ELSE UOk(<<>>)

NotRendered == [by |-> "none", threw |-> FALSE, container |-> FALSE, perNode |-> <<>>]

\* Render({ content }): perNode holds, for each top-level node in order, the
\* units it produced inside the container.
Render(content) ==
  IF Falsy(content)
    THEN [by |-> "Render", threw |-> FALSE, container |-> FALSE, perNode |-> <<>>]
  ELSE LET nodes == IF content.k = "arr" THEN content.items ELSE <<content>>
           each == [i \in 1..Len(nodes) |-> RenderNode(nodes[i])]
       IN IF \E i \in 1..Len(each) : each[i].threw
            THEN [by |-> "Render", threw |-> TRUE, container |-> FALSE,
                  perNode |-> <<>>]
            ELSE [by |-> "Render", threw |-> FALSE, container |-> TRUE,
                  perNode |-> [i \in 1..Len(each) |-> each[i].units]]

(***************************************************************************)
(* The trees handed to the renderer: well-formed ones and the malformed    *)
(* shapes a document source can produce.                                   *)
(***************************************************************************)
VARIABLES tree, rendered

renderVars == <<tree, rendered>>

RECURSIVE SeqsUpTo(_, _)
SeqsUpTo(S, n) ==
  IF n = 0 THEN {<<>>}
  ELSE LET shorter == SeqsUpTo(S, n - 1)
       IN shorter \cup {Append(s, x) : s \in shorter, x \in S}

Bold == Mark("bold", JUndef)

MarkValues ==
  {JNull, Bold, Mark("italic", JUndef), Mark("code", JUndef),
   Mark("link", Attrs(JUndef, JStr(<<"/", "a">>))), Mark("link", JUndef), Mark("blink", JUndef)}

MarkLists ==
  {JUndef, JStr(<<"b">>)} \cup {JArr(s) : s \in SeqsUpTo(MarkValues, 2)}

TextValues ==
  {JUndef, JNum(5), JStr(<<>>), JStr(<<" ">>), JStr(<<"x">>),
   JStr(<<"A", " ", "!", "b">>), JStr(<<"-", "a", "-">>)}

TextNodes == {TextNode(t, m) : t \in TextValues, m \in MarkLists}

Children ==
  {JNull, JStr(<<"x">>),
   TextNode(JStr(<<"x">>), JUndef), TextNode(JStr(<<" ">>), JUndef),
   TextNode(JStr(<<>>), JUndef), TextNode(JNum(5), JUndef),
   TextNode(JStr(<<"A", " ", "!", "b">>), JArr(<<Bold>>)),
   TextNode(JStr(<<"x">>), JArr(<<JNull>>)),
   Node("paragraph", JUndef, JStr(<<"o">>))}

Contents ==
  {JUndef, JNull, JStr(<<"o">>)}
    \cup {JArr(s) : s \in SeqsUpTo(Children, MaxContentLen)}

BlockTypes ==
  {"paragraph", "image", "video", "codeBlock", "alert", "warning",
   "blockquote", "details", "divider", "horizontalRule", "button", "doc",
   "undefined"}

Headings ==
  {Node("heading", a, c) :
     a \in {JUndef, JNull} \cup {Attrs(l, JUndef) : l \in {JUndef} \cup {JNum(n) : n \in -1..MaxLevel}},
     c \in Contents}

Blocks ==
  {Node(t, a, c) : t \in BlockTypes, a \in {JUndef, Attrs(JUndef, JUndef)}, c \in Contents}

ListItems ==
  {JNull, JStr(<<"x">>)}
    \cup {Node("listItem", JUndef, c) :
            c \in {JUndef, JStr(<<"o">>), JArr(<<>>),
                   JArr(<<Node("paragraph", JUndef,
                               JArr(<<TextNode(JStr(<<"x">>), JUndef)>>))>>),
                   JArr(<<JNull, TextNode(JStr(<<"x">>), JArr(<<Bold>>))>>)}}

Lists ==
  {Node(t, JUndef, c) :
     t \in {"bulletList", "orderedList"},
     c \in {JUndef, JStr(<<"o">>)} \cup {JArr(s) : s \in SeqsUpTo(ListItems, 2)}}

CellParagraph(text) ==
  JArr(<<Node("paragraph", JUndef, JArr(<<TextNode(text, JUndef)>>))>>)

Cells ==
  {JNull}
    \cup {Node(t, JUndef, c) :
            t \in {"tableHeader", "tableCell"},
            c \in {JUndef, JStr(<<"o">>), JArr(<<>>), JArr(<<JNull>>),
                   CellParagraph(JStr(<<"x">>)), CellParagraph(JNum(5))}}

Rows ==
  {JNull, JStr(<<"x">>)}
    \cup {Node("tableRow", JUndef, c) :
            c \in {JUndef, JStr(<<"o">>)} \cup {JArr(s) : s \in SeqsUpTo(Cells, 1)}}

Tables ==
  {Node("table", JUndef, c) :
     c \in {JUndef, JStr(<<"o">>)} \cup {JArr(s) : s \in SeqsUpTo(Rows, 2)}}

Nested ==
  {Node(t, JUndef, JArr(<<a, b>>)) :
     t \in {"blockquote", "doc"},
     a \in {JNull, Node("doc", JUndef, JArr(<<TextNode(JStr(<<"x">>), JUndef),
                                               TextNode(JStr(<<"x">>), JUndef)>>)),
            Node("bulletList", JUndef, JArr(<<JNull>>))},
     b \in {Node("heading", JUndef, JArr(<<TextNode(JStr(<<"x">>), JUndef)>>)),
            Node("paragraph", JUndef, JUndef)}}

TopNodes ==
  {JNull, JStr(<<"x">>), JNum(5)}
    \cup TextNodes \cup Blocks \cup Headings \cup Lists \cup Tables \cup Nested

\* The nodes paired up in longer top-level sequences.
PairNodes ==
  {JNull,
   Node("paragraph", JUndef, JArr(<<TextNode(JStr(<<"x">>), JUndef)>>)),
   Node("paragraph", JUndef, JArr(<<TextNode(JStr(<<" ">>), JUndef)>>)),
   Node("heading", Attrs(JNum(2), JUndef),
        JArr(<<TextNode(JStr(<<"A", " ", "!", "b">>), JUndef)>>)),
   Node("heading", Attrs(JNum(3), JUndef),
        JArr(<<TextNode(JStr(<<"A", " ">>), JUndef),
               TextNode(JStr(<<"!", "b">>), JUndef)>>)),
   Node("doc", JUndef, JArr(<<TextNode(JStr(<<"x">>), JUndef),
                              TextNode(JStr(<<"x">>), JArr(<<Bold>>))>>)),
   Node("table", JUndef, JArr(<<JNull>>)),
   Node("divider", JUndef, JUndef)}

Trees ==
  {JUndef, JNull, JStr(<<>>)}
    \cup TopNodes
    \cup {JArr(<<n>>) : n \in TopNodes}
    \cup {JArr(s) : s \in SeqsUpTo(PairNodes, 2)}

InitRender ==
  /\ tree \in Trees
  /\ rendered = NotRendered

\* <Render content={tree} />
RenderTree ==
  /\ rendered.by = "none"
  /\ rendered' = Render(tree)
  /\ UNCHANGED tree

\* <RenderNode node={tree} />
RenderOneNode ==
  /\ rendered.by = "none"
  /\ LET one == RenderNode(tree)
     IN rendered' = [by |-> "RenderNode", threw |-> one.threw,
                     container |-> FALSE,
                     perNode |-> IF one.threw THEN <<>> ELSE <<one.units>>]
  /\ UNCHANGED tree

\* The renderer at rest, for the specifications of the other parts.
IdleRender ==
  /\ tree = JUndef
  /\ rendered = NotRendered

(***************************************************************************)
(* Snippets and highlighting (escapeHtml, highlightMatches, buildSnippet). *)
(* A string is a sequence of characters; the tags the highlighter inserts  *)
(* and the ellipsis marker are elements of their own, so that they are     *)
(* told apart from the characters of the text.  A span is <<start, end>>,  *)
(* both inclusive, counted from 0.                                         *)
(***************************************************************************)
\* .replace(/c/g, to)
ReplaceAll(s, c, to) ==
  Flatten([i \in 1..Len(s) |-> IF s[i] = c THEN to ELSE <<s[i]>>])

\* escapeHtml(str)
EscapeHtml(str) ==
  IF str = <<>> THEN <<>>
  ELSE ReplaceAll(
         ReplaceAll(
           ReplaceAll(
             ReplaceAll(
               ReplaceAll(str, "&", <<"&", "a", "m", "p", ";">>),
               "<", <<"&", "l", "t", ";">>),
             ">", <<"&", "g", "t", ";">>),
           "\"", <<"&", "q", "u", "o", "t", ";">>),
         "'", <<"&", "#", "3", "9", ";">>)

\* An index argument of String.prototype.slice: negative counts from the end.
SliceIndex(n, len) == IF n < 0 THEN Max(len + n, 0) ELSE Min(n, len)

\* text.slice(from, to)
Slice(text, from, to) ==
  SubSeq(text, SliceIndex(from, Len(text)) + 1, SliceIndex(to, Len(text)))

\* [...indices].sort((a, b) => a[0] - b[0]): a stable sort by start.
RECURSIVE SortByStart(_)
SortByStart(indices) ==
  IF indices = <<>> THEN <<>>
  ELSE LET sorted == SortByStart(SubSeq(indices, 1, Len(indices) - 1))
           x == indices[Len(indices)]
           before == SelectSeq(sorted, LAMBDA y : y[1] <= x[1])
           after == SelectSeq(sorted, LAMBDA y : y[1] > x[1])
       IN before \o <<x>> \o after

openTag == "<mark>"

closeTag == "</mark>"

Ellipsis == "..."

\* Mutant of SkipSpan: a span that is empty after clamping is not skipped.
SkipSpan_KeepsEmpty(safeStart, safeEnd, cursor) == safeStart < cursor

\* Mutant of SkipSpan: a span that starts before the cursor is not skipped.
SkipSpan_NoCursor(safeStart, safeEnd, cursor) == safeStart >= safeEnd

\* safeStart >= safeEnd || safeStart < cursor
SkipSpan(safeStart, safeEnd, cursor) == safeStart >= safeEnd \/ safeStart < cursor

\* The loop of highlightMatches over the sorted spans, then the rest of the
\* text.  regions records the <<safeStart, safeEnd>> of each highlight.
RECURSIVE HighlightLoop(_, _, _, _, _)
HighlightLoop(text, spans, cursor, html, regions) ==
  IF spans = <<>>
    THEN [html |-> IF cursor < Len(text)
                     THEN html \o EscapeHtml(Slice(text, cursor, Len(text)))
                     ELSE html,
          regions |-> regions]
  ELSE LET safeStart == Max(0, Min(Head(spans)[1], Len(text)))
           safeEnd == Max(0, Min(Head(spans)[2] + 1, Len(text)))
       IN IF SkipSpan(safeStart, safeEnd, cursor)
            THEN HighlightLoop(text, Tail(spans), cursor, html, regions)
            ELSE HighlightLoop(
                   text, Tail(spans), safeEnd,
                   html
                     \o (IF safeStart > cursor
                           THEN EscapeHtml(Slice(text, cursor, safeStart))
                           ELSE <<>>)
                     \o <<openTag>>
                     \o EscapeHtml(Slice(text, safeStart, safeEnd))
                     \o <<closeTag>>,
                   Append(regions, <<safeStart, safeEnd>>))

\* highlightMatches(text, indices)
HighlightMatches(text, indices) ==
  IF text = <<>> \/ indices = <<>>
    THEN [html |-> EscapeHtml(text), regions |-> <<>>]
    ELSE HighlightLoop(text, SortByStart(indices), 0, <<>>, <<>>)

DefaultMaxLength == 160

DefaultContextChars == 60

\* matches?.find(match => match.key === key): the indices of the first match
\* for the key, <<>> when there is none.
RECURSIVE KeyIndices(_, _)
KeyIndices(matches, key) ==
  IF matches = <<>> THEN <<>>
  ELSE IF Head(matches).key = key THEN Head(matches).indices
  ELSE KeyIndices(Tail(matches), key)

\* Math.max(0, firstStart - contextChars)
SliceStart(firstStart, contextChars) == Max(0, firstStart - contextChars)

\* Mutant of SliceEnd: the character at the inclusive end is not counted.
SliceEnd_EndExclusive(len, firstEnd, contextChars) ==
  Min(len, firstEnd + contextChars)

\* Math.min(text.length, firstEnd + contextChars + 1)
SliceEnd(len, firstEnd, contextChars) == Min(len, firstEnd + contextChars + 1)

\* .map(([start, end]) => [start - sliceStart, end - sliceStart])
\* .filter(([start, end]) => end >= 0 && start < snippet.length)
AdjustedIndices(indices, sliceStart, snippetLength) ==
  SelectSeq([i \in 1..Len(indices) |->
               <<indices[i][1] - sliceStart, indices[i][2] - sliceStart>>],
            LAMBDA span : span[2] >= 0 /\ span[1] < snippetLength)

NoSnippet ==
  [op |-> "none", text |-> <<>>, html |-> <<>>, regions |-> <<>>,
   matched |-> FALSE, snippet |-> <<>>, sliceStart |-> 0, sliceEnd |-> 0,
   adjusted |-> <<>>, first |-> <<0, 0>>,
   maxLength |-> DefaultMaxLength, contextChars |-> DefaultContextChars]

\* buildSnippet(text, matches, { key: 'content', maxLength, contextChars })
BuildSnippet(text, matches, maxLength, contextChars) ==
  LET indices == KeyIndices(matches, "content")
      options == [NoSnippet EXCEPT !.op = "buildSnippet",
                                   !.maxLength = maxLength,
                                   !.contextChars = contextChars]
  IN IF text = <<>> THEN options
     ELSE IF indices = <<>>
       THEN LET snippet == Slice(text, 0, maxLength)
                suffix == IF Len(text) > maxLength THEN <<Ellipsis>> ELSE <<>>
            IN [options EXCEPT !.text = snippet \o suffix,
                               !.html = EscapeHtml(snippet) \o suffix,
                               !.snippet = snippet,
                               !.sliceEnd = Len(snippet)]
     ELSE LET sliceStart == SliceStart(indices[1][1], contextChars)
              sliceEnd == SliceEnd(Len(text), indices[1][2], contextChars)
              snippet == Slice(text, sliceStart, sliceEnd)
              adjusted == AdjustedIndices(indices, sliceStart, Len(snippet))
              marked == HighlightMatches(snippet, adjusted)
              prefix == IF sliceStart > 0 THEN <<Ellipsis>> ELSE <<>>
              suffix == IF sliceEnd < Len(text) THEN <<Ellipsis>> ELSE <<>>
          IN [options EXCEPT !.text = prefix \o snippet \o suffix,
                             !.html = prefix \o marked.html \o suffix,
                             !.regions = marked.regions,
                             !.matched = TRUE,
                             !.snippet = snippet,
                             !.sliceStart = sliceStart,
                             !.sliceEnd = sliceEnd,
                             !.adjusted = adjusted,
                             !.first = indices[1]]

VARIABLES sText, sIndices, sOut

snippetVars == <<sText, sIndices, sOut>>

TextChars == {"a", "<"}

SnippetTexts == UNION {[1..n -> TextChars] : n \in 0..MaxText}

\* The spans drawn for a text of length len: inside it, partly or wholly
\* outside it, and with the end just before the start.
SpansFor(len) == {span \in (-1..len) \X (-2..len) : span[2] >= span[1] - 1}

\* The shapes of the matches array around the spans of the content field.
MatchesFor(indices) ==
  {<<>>,
   <<[key |-> "content", indices |-> indices]>>,
   <<[key |-> "title", indices |-> indices]>>,
   <<[key |-> "title", indices |-> <<<<0, 0>>>>],
     [key |-> "content", indices |-> indices]>>}

InitSnippet ==
  /\ sText \in SnippetTexts
  /\ sIndices \in SeqsUpTo(SpansFor(Len(sText)), MaxSpans)
  /\ sOut = NoSnippet

\* highlightMatches(sText, sIndices)
Highlight ==
  /\ sOut.op = "none"
  /\ LET marked == HighlightMatches(sText, sIndices)
     IN sOut' = [NoSnippet EXCEPT !.op = "highlightMatches",
                                  !.html = marked.html,
                                  !.regions = marked.regions]
  /\ UNCHANGED <<sText, sIndices>>

\* buildSnippet(sText, matches, options)
Snippet ==
  /\ sOut.op = "none"
  /\ \E matches \in MatchesFor(sIndices),
        maxLength \in {1, DefaultMaxLength},
        contextChars \in 0..MaxContext \cup {DefaultContextChars} :
       sOut' = BuildSnippet(sText, matches, maxLength, contextChars)
  /\ UNCHANGED <<sText, sIndices>>

\* The snippet functions at rest, for the specifications of the other parts.
IdleSnippet ==
  /\ sText = <<>>
  /\ sIndices = <<>>
  /\ sOut = NoSnippet

(***************************************************************************)
(* The useAccordion hook.  Item identifiers are the indices 0..MaxItems-1. *)
(*   multiple    the option the hook was created with                      *)
(*   openItems   the hook's state: the list of open items                  *)
(*   accLast     history: the last call made on the hook                   *)
(***************************************************************************)
VARIABLES multiple, openItems, accLast

accordionVars == <<multiple, openItems, accLast>>

ItemIds == 0..(MaxItems - 1)

\* items.map((_, i) => i)
Indices(n) == [i \in 1..n |-> i - 1]

\* defaultOpen: an array of identifiers, 'all', or something else.
DefaultOpens ==
  {[kind |-> "array", ids |-> ids] : ids \in SeqsUpTo(ItemIds, 2)}
    \cup {[kind |-> "all", ids |-> <<>>], [kind |-> "other", ids |-> <<>>]}

\* getInitialOpen(), for items of length n
GetInitialOpen(defaultOpen, n) ==
  IF defaultOpen.kind = "all" /\ n > 0 THEN Indices(n)
  ELSE IF defaultOpen.kind = "array" THEN defaultOpen.ids
  ELSE <<>>

\* prev.includes(id)
Includes(prev, id) == \E i \in 1..Len(prev) : prev[i] = id

\* prev.filter(item => item !== id)
Without(prev, id) == SelectSeq(prev, LAMBDA item : item # id)

InitAccordion ==
  /\ multiple \in BOOLEAN
  /\ \E defaultOpen \in DefaultOpens, n \in 0..MaxItems :
       openItems = GetInitialOpen(defaultOpen, n)
  /\ accLast = [op |-> "init", id |-> 0]

\* toggle(id)
Toggle(id) ==
  /\ openItems' = IF Includes(openItems, id) THEN Without(openItems, id)
                  ELSE IF multiple THEN Append(openItems, id)
                  ELSE <<id>>
  /\ accLast' = [op |-> "toggle", id |-> id]
  /\ UNCHANGED multiple

\* open(id)
Open(id) ==
  /\ openItems' = IF Includes(openItems, id) THEN openItems
                  ELSE IF multiple THEN Append(openItems, id)
                  ELSE <<id>>
  /\ accLast' = [op |-> "open", id |-> id]
  /\ UNCHANGED multiple

\* close(id)
Close(id) ==
  /\ openItems' = Without(openItems, id)
  /\ accLast' = [op |-> "close", id |-> id]
  /\ UNCHANGED multiple

\* openAll(allIds): allIds is the array of all identifiers, or not an array.
OpenAll(isArray) ==
  /\ openItems' = IF multiple /\ isArray THEN Indices(MaxItems) ELSE openItems
  /\ accLast' = [op |-> "openAll", id |-> 0]
  /\ UNCHANGED multiple

\* closeAll()
CloseAll ==
  /\ openItems' = <<>>
  /\ accLast' = [op |-> "closeAll", id |-> 0]
  /\ UNCHANGED multiple

\* The accordion at rest, for the specifications of the other parts.
IdleAccordion ==
  /\ multiple = FALSE
  /\ openItems = <<>>
  /\ accLast = [op |-> "init", id |-> 0]


(***************************************************************************)
(* The Icon component: its three pieces of React state, the normalised     *)
(* props of the last render, and the fetches its effect has started.       *)
(*   iconProps     iconSvg, iconUrl, iconLibrary, iconName ("" when not    *)
(*                 given)                                                  *)
(*   fetchedSvg    the fetchedSvg state                                    *)
(*   loading       the loading state                                       *)
(*   iconError     the error state                                         *)
(*   requests      fetch(iconUrl) and resolveIcon(library, name) promises  *)
(*                 that have not settled                                   *)
(***************************************************************************)
VARIABLES iconProps, fetchedSvg, loading, iconError, requests

iconVars == <<iconProps, fetchedSvg, loading, iconError, requests>>

MaxRequests == 2

\* What a request asks for, and what a piece of SVG text is the icon of.
NoOrigin == [url |-> "", library |-> "", name |-> ""]

UrlOrigin(url) == [url |-> url, library |-> "", name |-> ""]

LibraryOrigin(library, name) == [url |-> "", library |-> library, name |-> name]

\* A string of SVG text: "svg" has an <svg> element, "other" has none,
\* "empty" is the empty string, "null" stands for null.
NoText == [form |-> "null", of |-> NoOrigin]

SvgText(form, origin) == [form |-> form, of |-> origin]

HasText(text) == text.form \notin {"null", "empty"}

BUILT_IN_ICONS == {"check", "star"}

NoData == [kind |-> "null", of |-> NoOrigin, isBuiltIn |-> FALSE]

\* parseSvg(svgContent): null without content or without an <svg> element.
ParseSvg(svgContent) ==
  IF ~HasText(svgContent) THEN NoData
  ELSE IF svgContent.form # "svg" THEN NoData
  ELSE [kind |-> "parsed", of |-> svgContent.of, isBuiltIn |-> FALSE]

\* The svgData memo: direct SVG, then fetched SVG, then a built-in icon.
SvgData(props, fetched) ==
  IF HasText(props.svg) THEN ParseSvg(props.svg)
  ELSE IF HasText(fetched) THEN ParseSvg(fetched)
  ELSE IF props.name # "" /\ props.library = "" /\ props.name \in BUILT_IN_ICONS
    THEN [kind |-> "builtin", of |-> LibraryOrigin("", props.name),
          isBuiltIn |-> TRUE]
  ELSE NoData

\* What the component returns: the loading placeholder, the error component,
\* the <img> fallback, the placeholder of a library icon, nothing, or the
\* <svg> with the content of svgData.
Shown(props, fetched, busy, hasError) ==
  LET svgData == SvgData(props, fetched)
  IN IF busy THEN [shows |-> "loading", of |-> NoOrigin]
     ELSE IF hasError THEN [shows |-> "error", of |-> NoOrigin]
     ELSE IF svgData = NoData
       THEN IF props.url # "" THEN [shows |-> "img", of |-> UrlOrigin(props.url)]
            ELSE IF props.library # "" /\ props.name # ""
              THEN [shows |-> "placeholder", of |-> NoOrigin]
            ELSE [shows |-> "nothing", of |-> NoOrigin]
     ELSE [shows |-> "svg", of |-> svgData.of]

\* The request the effect starts for these props, NoOrigin when it starts
\* none: fetch(iconUrl), or resolveIcon(iconLibrary, iconName) when the
\* runtime has a resolver.
EffectRequest(props, hasResolver) ==
  IF HasText(props.svg) THEN NoOrigin
  ELSE IF props.url # "" THEN UrlOrigin(props.url)
  ELSE IF props.name # "" /\ props.library = "" /\ props.name \in BUILT_IN_ICONS
    THEN NoOrigin
  ELSE IF props.library # "" /\ props.name # "" /\ hasResolver
    THEN LibraryOrigin(props.library, props.name)
  ELSE NoOrigin

\* The effect, run after a render whose sources differ from the last ones.
RunEffect(props, hasResolver) ==
  /\ iconProps' = props
  /\ fetchedSvg' = NoText
  /\ iconError' = FALSE
  /\ IF EffectRequest(props, hasResolver) # NoOrigin
       THEN /\ loading' = TRUE
            /\ requests' = requests (+) SetToBag({EffectRequest(props, hasResolver)})
       ELSE UNCHANGED <<loading, requests>>

DirectSvg == SvgText("svg", LibraryOrigin("direct", "direct"))

IconUrls == {"u1", "u2"}

\* The normalised props a render can have.
IconSources ==
  {[svg |-> NoText, url |-> u, library |-> "", name |-> ""] : u \in IconUrls}
  \cup {[svg |-> NoText, url |-> "", library |-> "lucide", name |-> n] :
          n \in {"home", "star"}}
  \cup {[svg |-> NoText, url |-> "", library |-> "", name |-> n] :
          n \in {"check", "none"}}
  \cup {[svg |-> DirectSvg, url |-> "u1", library |-> "", name |-> ""]}

\* A render with other sources than the last one, and its effect.
SourceChanges ==
  /\ BagCardinality(requests) < MaxRequests
  /\ \E props \in IconSources \ {iconProps}, hasResolver \in BOOLEAN :
       RunEffect(props, hasResolver)

\* fetch(iconUrl) settles: a response that is ok with its text, or a failure
\* (network error, response not ok).
UrlSettles(request) ==
  /\ request.url # ""
  /\ requests' = requests (-) SetToBag({request})
  /\ \E outcome \in {"svg", "other", "empty", "fail"} :
       IF outcome = "fail"
         THEN /\ iconError' = TRUE
              /\ loading' = FALSE
              /\ UNCHANGED fetchedSvg
         ELSE /\ fetchedSvg' = SvgText(outcome, request)
              /\ loading' = FALSE
              /\ UNCHANGED iconError
  /\ UNCHANGED iconProps

\* resolveIcon(library, name) settles: with content, with nothing, or it
\* rejects.
ResolveSettles(request) ==
  /\ request.library # ""
  /\ requests' = requests (-) SetToBag({request})
  /\ \E outcome \in {"svg", "other", "empty", "null", "fail"} :
       IF outcome \in {"empty", "null", "fail"}
         THEN /\ iconError' = TRUE
              /\ loading' = FALSE
              /\ UNCHANGED fetchedSvg
         ELSE /\ fetchedSvg' = SvgText(outcome, request)
              /\ loading' = FALSE
              /\ UNCHANGED iconError
  /\ UNCHANGED iconProps

\* The component after its first render and the effect of that render.
InitIcon ==
  /\ iconProps \in IconSources
  /\ fetchedSvg = NoText
  /\ iconError = FALSE
  /\ \E hasResolver \in BOOLEAN :
       LET started == EffectRequest(iconProps, hasResolver)
       IN /\ loading = (started # NoOrigin)
          /\ requests = IF started # NoOrigin THEN SetToBag({started})
                                              ELSE EmptyBag

\* No icon rendered, for the specifications of the other parts.
IdleIcon ==
  /\ iconProps = [svg |-> NoText, url |-> "", library |-> "", name |-> ""]
  /\ fetchedSvg = NoText
  /\ loading = FALSE
  /\ iconError = FALSE
  /\ requests = EmptyBag
InitClient ==
  /\ indexCache = [u \in URLs |-> Absent]
  /\ fuseCache = [u \in URLs |-> NoFuse]
  /\ storageOK \in BOOLEAN
  /\ storage \in [StorageKeys -> RawValues]
  /\ storage[ForeignKey] = Corrupt
  /\ storage[StorageKey("u1")].url \in {NoKey, "u1"}
  /\ storage[StorageKey("u2")] = NoItem
  /\ ~storageOK => \A u \in URLs : storage[StorageKey(u)] = NoItem
  /\ calls = EmptyBag
  /\ ready = [u \in URLs |-> FALSE]
  /\ last = [op |-> "init", key |-> NoKey, call |-> Idle, had |-> FALSE]

\* The search client at rest, for the specifications of the other parts.
IdleClient ==
  /\ indexCache = [u \in URLs |-> Absent]
  /\ fuseCache = [u \in URLs |-> NoFuse]
  /\ storageOK = TRUE
  /\ storage = [k \in StorageKeys |-> NoItem]
  /\ calls = EmptyBag
  /\ ready = [u \in URLs |-> FALSE]
  /\ last = [op |-> "init", key |-> NoKey, call |-> Idle, had |-> FALSE]

vars == <<clientVars, queryVars, hookVars, renderVars, snippetVars, accordionVars, iconVars>>

\* The search client and its caches.
Init ==
  InitClient /\ IdleQuery /\ InitHook /\ IdleRender /\ IdleSnippet
    /\ IdleAccordion /\ IdleIcon

Next ==
  \/ Query /\ UNCHANGED <<queryVars, hookVars, renderVars, snippetVars, accordionVars, iconVars>>
  \/ Preload /\ UNCHANGED <<queryVars, hookVars, renderVars, snippetVars, accordionVars, iconVars>>
  \/ LoadSearchIndex /\ UNCHANGED <<queryVars, hookVars, renderVars, snippetVars, accordionVars, iconVars>>
  \/ \E call \in InFlight : FetchSettles(call) /\ UNCHANGED <<queryVars, hookVars, renderVars, snippetVars, accordionVars, iconVars>>
  \/ \E call \in InFlight : ImportSettles(call) /\ UNCHANGED <<queryVars, hookVars, renderVars, snippetVars, accordionVars, iconVars>>
  \/ \E cacheKey \in URLs \cup {NoKey} :
       ClearSearchCache(cacheKey) /\ UNCHANGED <<queryVars, hookVars, renderVars, snippetVars, accordionVars, iconVars>>
  \/ \E client \in Clients : ClearCache(client) /\ UNCHANGED <<queryVars, hookVars, renderVars, snippetVars, accordionVars, iconVars>>

Spec == Init /\ [][Next]_vars

\* The filters and the limit of query().
InitSpecQuery ==
  InitQuery /\ IdleClient /\ InitHook /\ IdleRender
    /\ IdleSnippet /\ IdleAccordion /\ IdleIcon

NextQuery == RunQuery /\ UNCHANGED <<clientVars, hookVars, renderVars, snippetVars, accordionVars, iconVars>>

SpecQuery == InitSpecQuery /\ [][NextQuery]_vars

\* The useSearch hook.
InitSpecHook ==
  InitHook /\ IdleClient /\ IdleQuery /\ IdleRender
    /\ IdleSnippet /\ IdleAccordion /\ IdleIcon

NextHook ==
  \/ HookQuery /\ UNCHANGED <<clientVars, queryVars, renderVars, snippetVars, accordionVars, iconVars>>
  \/ \E id \in SearchIds : TimerFires(id) /\ UNCHANGED <<clientVars, queryVars, renderVars, snippetVars, accordionVars, iconVars>>
  \/ \E id \in SearchIds : QuerySettles(id) /\ UNCHANGED <<clientVars, queryVars, renderVars, snippetVars, accordionVars, iconVars>>
  \/ HookClear /\ UNCHANGED <<clientVars, queryVars, renderVars, snippetVars, accordionVars, iconVars>>

SpecHook == InitSpecHook /\ [][NextHook]_vars

\* The hook with the scheduling its promises rely on: a debounce timer that
\* is set and not cleared fires, and a client.query call in flight completes.
OtherThanHook ==
  <<clientVars, queryVars, renderVars, snippetVars, accordionVars, iconVars>>

HookFairness ==
  \A id \in SearchIds :
    /\ WF_vars(TimerFires(id) /\ UNCHANGED OtherThanHook)
    /\ WF_vars(QuerySettles(id) /\ UNCHANGED OtherThanHook)

SpecHookFair == InitSpecHook /\ [][NextHook]_vars /\ HookFairness


\* The content renderer.
InitSpecRender ==
  InitRender /\ IdleClient /\ IdleQuery /\ InitHook
    /\ IdleSnippet /\ IdleAccordion /\ IdleIcon

NextRender ==
  \/ RenderTree /\ UNCHANGED <<clientVars, queryVars, hookVars, snippetVars, accordionVars, iconVars>>
  \/ RenderOneNode /\ UNCHANGED <<clientVars, queryVars, hookVars, snippetVars, accordionVars, iconVars>>

SpecRender == InitSpecRender /\ [][NextRender]_vars

\* Snippets and highlighting.
InitSpecSnippet ==
  InitSnippet /\ IdleClient /\ IdleQuery /\ InitHook /\ IdleRender
    /\ IdleAccordion /\ IdleIcon

NextSnippet ==
  \/ Highlight /\ UNCHANGED <<clientVars, queryVars, hookVars, renderVars, accordionVars, iconVars>>
  \/ Snippet /\ UNCHANGED <<clientVars, queryVars, hookVars, renderVars, accordionVars, iconVars>>

SpecSnippet == InitSpecSnippet /\ [][NextSnippet]_vars

\* The useAccordion hook.
InitSpecAccordion ==
  InitAccordion /\ IdleClient /\ IdleQuery /\ InitHook /\ IdleRender
    /\ IdleSnippet /\ IdleIcon

OtherThanAccordion ==
  <<clientVars, queryVars, hookVars, renderVars, snippetVars, iconVars>>

NextAccordion ==
  \/ \E id \in ItemIds : Toggle(id) /\ UNCHANGED OtherThanAccordion
  \/ \E id \in ItemIds : Open(id) /\ UNCHANGED OtherThanAccordion
  \/ \E id \in ItemIds : Close(id) /\ UNCHANGED OtherThanAccordion
  \/ \E isArray \in BOOLEAN : OpenAll(isArray) /\ UNCHANGED OtherThanAccordion
  \/ CloseAll /\ UNCHANGED OtherThanAccordion

SpecAccordion == InitSpecAccordion /\ [][NextAccordion]_vars

\* The Icon component.
InitSpecIcon ==
  InitIcon /\ IdleClient /\ IdleQuery /\ InitHook /\ IdleRender
    /\ IdleSnippet /\ IdleAccordion

OtherThanIcon ==
  <<clientVars, queryVars, hookVars, renderVars, snippetVars, accordionVars>>

NextIcon ==
  \/ SourceChanges /\ UNCHANGED OtherThanIcon
  \/ \E request \in BagToSet(requests) : UrlSettles(request) /\ UNCHANGED OtherThanIcon
  \/ \E request \in BagToSet(requests) : ResolveSettles(request) /\ UNCHANGED OtherThanIcon

SpecIcon == InitSpecIcon /\ [][NextIcon]_vars
(***************************************************************************)
(* Properties of the search client.                                        *)
(***************************************************************************)
\* The calls a state shows: those in flight and the one that settled last.
Observed == InFlight \cup {last.call}

IsBlank(text) ==
  text.t # "string" \/ \A i \in 1..Len(text.s) : text.s[i] \in Whitespace

\* C2: once a query() or preload() has resolved through getFuse for an index
\* URL, a later query() for that URL that starts before any clear call makes no
\* network fetch, reads no durable store, builds no fuzzy structure, and
\* searches the cached structure.
C2_ReuseAfterReady ==
  \A call \in Observed :
    (call.kind = "query" /\ call.sawReady) =>
      /\ call.acc.fetch = 0
      /\ call.acc.storeRead = 0
      /\ call.acc.build = 0
      /\ call.pc = "resolved"
      /\ (call.enabled = "yes" =>
            call.fuse # NoFuse /\ call.fuse = fuseCache[call.client.url])

C2_Witness ==
  /\ last.op = "end"
  /\ last.call.kind = "query"
  /\ last.call.sawReady
  /\ last.call.enabled = "yes"
  /\ last.call.result # <<>>

\* C3: when the index fetch made for a query() or preload() returns a
\* non-success status or fails at the network level, the call rejects and
\* exactly one fetch was attempted for it.
C3_FetchFailureRejectsOnce ==
  \A call \in Observed :
    (call.kind \in {"query", "preload"} /\ call.fetched \in {"http", "net"}) =>
      /\ call.pc = "rejected"
      /\ call.why = "fetch"
      /\ call.acc.fetch = 1

C3_Witness ==
  /\ last.op = "end"
  /\ last.call.kind = "query"
  /\ last.call.fetched = "http"
  /\ last.call.pc = "rejected"

\* C4 (as claimed): no query(), preload() or loadSearchIndex() call rejects
\* because of the durable store; a store failure is a cache miss.
C4_StoreFailureIsCacheMiss ==
  \A call \in Observed : call.pc = "rejected" => call.why # "store"

\* C5: right after clearSearchCache(key) none of the three layers holds an
\* entry for key; right after clearSearchCache() none holds any entry.
C5_ClearedEverywhere ==
  last.op = "clear" =>
    \A u \in URLs :
      (last.key \in {u, NoKey}) =>
        /\ indexCache[u] = Absent
        /\ fuseCache[u] = NoFuse
        /\ storage[StorageKey(u)] = NoItem

C5_Witness == last.op = "clear" /\ last.had

\* C6: an operation performed for one index URL (a step of a query, preload or
\* load for it, a clearCache or clearSearchCache of it) leaves the entries of
\* every other URL in the three layers as they were.
C6_OtherUrlUntouched ==
  [][\A a \in URLs :
       (last'.key = a) =>
         \A b \in URLs \ {a} :
           /\ indexCache'[b] = indexCache[b]
           /\ fuseCache'[b] = fuseCache[b]
           /\ storage'[StorageKey(b)] = storage[StorageKey(b)]]_vars

C6_Witness ==
  /\ last.op = "clear"
  /\ last.key = "u1"
  /\ last.had
  /\ indexCache["u2"] # Absent
  /\ fuseCache["u2"] # NoFuse
  /\ storage[StorageKey("u2")] # NoItem

\* C7: when the data source reports search disabled, query(text) for a
\* non-empty text returns an empty sequence without any network request, and
\* preload() loads nothing, whatever the caches hold.
C7_DisabledShortCircuit ==
  \A call \in Observed :
    call.enabled = "no" =>
      /\ call.pc = "resolved"
      /\ call.result = <<>>
      /\ call.acc.fetch = 0
      /\ call.acc.storeRead = 0
      /\ call.acc.storeWrite = 0
      /\ call.acc.memWrite = 0
      /\ call.acc.build = 0
      /\ call.index = Absent
      /\ call.fuse = NoFuse

C7_Witness ==
  /\ last.op = "end"
  /\ last.call.kind = "query"
  /\ last.call.enabled = "no"
  /\ ~IsBlank(last.call.text)
  /\ fuseCache[last.call.client.url] # NoFuse

\* C8: query(text) for an empty, whitespace-only, null or undefined text
\* returns an empty sequence and touches nothing: no fetch, no durable-store
\* access, no read or write of the two in-memory caches, no enabled check.
C8_BlankTouchesNothing ==
  \A call \in Observed :
    (call.kind = "query" /\ IsBlank(call.text)) =>
      /\ call.pc = "resolved"
      /\ call.result = <<>>
      /\ call.acc = ZeroAcc
      /\ call.enabled = "notasked"

C8_Witness ==
  /\ last.op = "end"
  /\ last.call.kind = "query"
  /\ last.call.text.t = "string"
  /\ last.call.text.s # <<>>
  /\ IsBlank(last.call.text)
  /\ fuseCache[last.call.client.url] # NoFuse

(***************************************************************************)
(* Properties of the tail of query().                                      *)
(***************************************************************************)
Given(option) == option.t = "string" /\ option.s # <<>>

\* The ranks of the matches that pass the filters that are given.
Kept ==
  { i \in 1..Len(qRanked) :
      /\ Given(qOptions.type) => qRanked[i].item.type = qOptions.type
      /\ Given(qOptions.route) =>
           /\ qRanked[i].item.route.t = "string"
           /\ \E rest \in 0..Len(qRanked[i].item.route.s) :
                /\ Len(qOptions.route.s) + rest = Len(qRanked[i].item.route.s)
                /\ \A k \in 1..Len(qOptions.route.s) :
                     qRanked[i].item.route.s[k] = qOptions.route.s[k] }

EffectiveLimit ==
  IF qOptions.limit.t = "undefined" THEN qDefaultLimit ELSE qOptions.limit.n

\* C9: for a non-negative limit the result holds exactly the first limit
\* matches, in rank order, of those whose type equals the given type and whose
\* route starts with the given route; limit defaults to the client's
\* defaultLimit.
C9_FilterThenLimit ==
  qResults.done =>
    /\ Len(qResults.value) <= EffectiveLimit
    /\ Len(qResults.value) =
         (IF Cardinality(Kept) <= EffectiveLimit THEN Cardinality(Kept)
                                                 ELSE EffectiveLimit)
    /\ \A j \in 1..Len(qResults.value) :
         \E i \in Kept :
           /\ Cardinality({k \in Kept : k <= i}) = j
           /\ qResults.value[j] = ToResult(qRanked[i])

\* A dropped match ranks above two kept ones and the limit cuts the second.
C9_Witness ==
  /\ qResults.done
  /\ Given(qOptions.type)
  /\ qOptions.limit = Num(1)
  /\ 1 \notin Kept
  /\ Cardinality(Kept) = 2
  /\ Len(qResults.value) = 1

(***************************************************************************)
(* Properties of the useSearch hook.                                       *)
(***************************************************************************)
\* C1 (as claimed): results and error are only ever changed on behalf of the
\* most recently issued query() call; the settling of an earlier call's
\* client.query changes neither once a later query() call has been issued.
C1_LastQueryWins ==
  (hookLast.op = "settle" /\ hookLast.changed) => hookLast.id = issued


\* C10: rendering never throws: whatever the tree, malformed nodes included,
\* Render and RenderNode complete without raising an error.
C10_RenderNeverThrows == rendered.by # "none" => ~rendered.threw

(***************************************************************************)
(* Properties of the content renderer.                                     *)
(***************************************************************************)
\* The top-level nodes of the tree that was rendered.
TopLevel == IF rendered.by = "Render" /\ tree.k = "arr" THEN tree.items ELSE <<tree>>

\* The render pass completed and produced one entry per top-level node.
Completed ==
  /\ rendered.by # "none"
  /\ ~rendered.threw
  /\ Len(rendered.perNode) = Len(TopLevel)

BlankString(s) == \A i \in 1..Len(s) : s[i] \in Whitespace

\* A paragraph whose flattened text is empty or only white space.
BlankParagraph(node) ==
  /\ TypeOf(node) = "paragraph"
  /\ ~ExtractText(node).threw
  /\ ExtractText(node).val.k = "str"
  /\ BlankString(ExtractText(node).val.s)

\* C11: empty in, empty out: a paragraph whose flattened text is empty or
\* only white space yields no unit, and Render of an empty sequence yields
\* nothing, not an empty container.
C11_EmptyInEmptyOut ==
  /\ (rendered.by = "Render" /\ tree = JArr(<<>>)) => ~rendered.container
  /\ Completed =>
       \A i \in 1..Len(TopLevel) :
         BlankParagraph(TopLevel[i]) => rendered.perNode[i] = <<>>

\* C12: every top-level node yields zero or one unit, in input order, also a
\* node of an unrecognised type with several children.
C12_AtMostOneUnitPerNode ==
  Completed => \A i \in 1..Len(TopLevel) : Len(rendered.perNode[i]) <= 1

Clamp(n) == Max(1, Min(n, 6))

\* C13: the level of an emitted heading is between 1 and 6 and equals
\* attrs.level clamped to that range (1 when the level is missing).
C13_HeadingLevelClamped ==
  Completed =>
    \A i \in 1..Len(TopLevel) :
      TypeOf(TopLevel[i]) = "heading" =>
        LET level == OptGet(Get(TopLevel[i], "attrs"), "level")
            unit == rendered.perNode[i][1]
        IN /\ unit.level \in 1..6
           /\ unit.level = IF level.k = "num" THEN Clamp(level.n) ELSE 1

\* The maximal runs of a-z and 0-9 in a lower-cased text, in order.
RECURSIVE Words(_, _)
Words(s, word) ==
  IF s = <<>> THEN (IF word = <<>> THEN <<>> ELSE <<word>>)
  ELSE IF ToLower(Head(s)) \in AlphaNum
    THEN Words(Tail(s), Append(word, ToLower(Head(s))))
  ELSE (IF word = <<>> THEN <<>> ELSE <<word>>) \o Words(Tail(s), <<>>)

RECURSIVE Hyphenated(_)
Hyphenated(words) ==
  IF words = <<>> THEN <<>>
  ELSE IF Len(words) = 1 THEN words[1]
  ELSE words[1] \o <<"-">> \o Hyphenated(Tail(words))

\* The heading units of the render pass, with the flattened text of each.
HeadingUnits ==
  { rendered.perNode[i][1] :
      i \in { j \in 1..Len(TopLevel) : TypeOf(TopLevel[j]) = "heading" } }

\* C14: the anchor id of a heading is its text lower-cased, every maximal run
\* of other characters replaced by one hyphen, without hyphens at the ends:
\* only a-z, 0-9 and hyphens, no hyphen first or last, no two hyphens in a
\* row, and the same text always gives the same id.
C14_SlugOfHeadingText ==
  Completed =>
    /\ \A unit \in HeadingUnits :
         /\ unit.id = Hyphenated(Words(unit.val.s, <<>>))
         /\ \A k \in 1..Len(unit.id) : unit.id[k] \in AlphaNum \cup {"-"}
         /\ unit.id # <<>> => unit.id[1] # "-" /\ unit.id[Len(unit.id)] # "-"
         /\ \A k \in 1..Len(unit.id) - 1 :
              ~(unit.id[k] = "-" /\ unit.id[k + 1] = "-")
    /\ \A a, b \in HeadingUnits : a.val = b.val => a.id = b.id

\* Two headings of different shape with the same text got their ids, and the
\* text has other characters at an end and in the middle.
C14_Witness ==
  /\ Completed
  /\ Len(TopLevel) = 2
  /\ TopLevel[1] # TopLevel[2]
  /\ Cardinality(HeadingUnits) = 2
  /\ \A unit \in HeadingUnits : unit.id = <<"a", "-", "b">>

KnownMarks == {"bold", "strong", "italic", "em", "code", "link"}

\* The marks of a list whose type the renderer knows.
RECURSIVE WithoutUnknown(_)
WithoutUnknown(marks) ==
  IF marks = <<>> THEN <<>>
  ELSE IF TypeOf(Head(marks)) \in KnownMarks
    THEN <<Head(marks)>> \o WithoutUnknown(Tail(marks))
  ELSE WithoutUnknown(Tail(marks))

\* The tree is a text node with a list of marks, none of them null.
MarkedText ==
  /\ TypeOf(tree) = "text"
  /\ Get(tree, "marks").k = "arr"
  /\ \A i \in 1..Len(tree.marks.items) : ~Nullish(tree.marks.items[i])

\* The markup of a rendered text node.
Markup == rendered.perNode[1][1].val

\* What the opening and closing tags of a mark are.
OpenTag(mark) ==
  CASE TypeOf(mark) \in {"bold", "strong"} -> <<"<strong>">>
    [] TypeOf(mark) \in {"italic", "em"} -> <<"<em>">>
    [] TypeOf(mark) = "code" -> <<"<code>">>
    [] TypeOf(mark) = "link" ->
         <<"<a href=">>
           \o (IF Falsy(OptGet(Get(mark, "attrs"), "href")) THEN <<"#">>
               ELSE ToStr(OptGet(Get(mark, "attrs"), "href")))
           \o <<">">>

CloseTag(mark) ==
  CASE TypeOf(mark) \in {"bold", "strong"} -> <<"</strong>">>
    [] TypeOf(mark) \in {"italic", "em"} -> <<"</em>">>
    [] TypeOf(mark) = "code" -> <<"</code>">>
    [] TypeOf(mark) = "link" -> <<"</a>">>

\* C15: marks wrap in array order, the first innermost and the last
\* outermost; a mark of an unknown type changes nothing, so the output is the
\* output without the unknown marks; 'x' with [bold, link href '/a'] gives the
\* link around the strong element.
C15_MarksStackInOrder ==
  (Completed /\ MarkedText) =>
    LET marks == tree.marks.items
        known == WithoutUnknown(marks)
        inner == RenderNode(TextNode(Get(tree, "text"),
                                     JArr(SubSeq(known, 1, Len(known) - 1))))
    IN /\ Markup = RenderNode(TextNode(Get(tree, "text"), JArr(known))).units[1].val
       /\ known # <<>> =>
            Markup.s = OpenTag(known[Len(known)])
                         \o ToStr(inner.units[1].val)
                         \o CloseTag(known[Len(known)])
       /\ known = <<>> =>
            Markup = (IF Falsy(Get(tree, "text")) THEN JStr(<<>>)
                      ELSE Get(tree, "text"))
       /\ (Get(tree, "text") = JStr(<<"x">>)
             /\ marks = <<Bold, Mark("link", Attrs(JUndef, JStr(<<"/", "a">>)))>>)
            => Markup.s = <<"<a href=", "/", "a", ">",
                            "<strong>", "x", "</strong>", "</a>">>

\* 'x' with [bold, link] was rendered.
C15_Witness ==
  /\ Completed
  /\ MarkedText
  /\ Get(tree, "text") = JStr(<<"x">>)
  /\ tree.marks.items = <<Bold, Mark("link", Attrs(JUndef, JStr(<<"/", "a">>)))>>

(***************************************************************************)
(* Properties of snippets and highlighting.                                *)
(***************************************************************************)
\* The output without the highlight tags the highlighter inserted.
WithoutTags(html) == SelectSeq(html, LAMBDA x : x \notin {openTag, closeTag})

\* C16: highlightMatches escapes every fragment of the text and never the
\* tags: without the inserted tags the output is exactly escapeHtml(text).
C16_HighlightKeepsEscapedText ==
  sOut.op = "highlightMatches" => WithoutTags(sOut.html) = EscapeHtml(sText)

\* A text with a character to escape was highlighted for two overlapping
\* spans, and one highlight was emitted.
C16_Witness ==
  /\ sOut.op = "highlightMatches"
  /\ sText = <<"a", "<", "a">>
  /\ sIndices = <<<<1, 2>>, <<0, 1>>>>
  /\ Len(sOut.regions) = 1
  /\ Len(sOut.html) > Len(sText) + 2

\* buildSnippet took the branch with matches and the first span, in received
\* order, lies in the text.
FirstSpanInside ==
  /\ sOut.op = "buildSnippet"
  /\ sOut.matched
  /\ 0 <= sOut.first[1]
  /\ sOut.first[1] <= sOut.first[2]
  /\ sOut.first[2] < Len(sText)

WindowStart == Max(0, sOut.first[1] - sOut.contextChars)

WindowEnd == Min(Len(sText), sOut.first[2] + sOut.contextChars + 1)

\* C17: with a match span on the content field the snippet is the window
\* [max(0, s - contextChars), min(len, e + contextChars + 1)) around the first
\* span in received order; text and html start with the ellipsis marker
\* exactly when the window starts after 0 and end with it exactly when the
\* window ends before len.  Length 500, span [240, 250], contextChars 60 give
\* the window [180, 311).
C17_WindowAroundFirstSpan ==
  /\ SliceStart(240, 60) = 180
  /\ SliceEnd(500, 250, 60) = 311
  /\ FirstSpanInside =>
       /\ sOut.snippet = SubSeq(sText, WindowStart + 1, WindowEnd)
       /\ sOut.sliceStart = WindowStart
       /\ sOut.sliceEnd = WindowEnd
       /\ sOut.text = (IF WindowStart > 0 THEN <<Ellipsis>> ELSE <<>>)
                        \o sOut.snippet
                        \o (IF WindowEnd < Len(sText) THEN <<Ellipsis>> ELSE <<>>)
       /\ Head(sOut.text) = Ellipsis <=> WindowStart > 0
       /\ Head(sOut.html) = Ellipsis <=> WindowStart > 0
       /\ sOut.text[Len(sOut.text)] = Ellipsis <=> WindowEnd < Len(sText)
       /\ sOut.html[Len(sOut.html)] = Ellipsis <=> WindowEnd < Len(sText)
       /\ WithoutTags(sOut.html)
            = (IF WindowStart > 0 THEN <<Ellipsis>> ELSE <<>>)
                \o EscapeHtml(sOut.snippet)
                \o (IF WindowEnd < Len(sText) THEN <<Ellipsis>> ELSE <<>>)

\* A window cut at both ends around a first span that is not the leftmost.
C17_Witness ==
  /\ FirstSpanInside
  /\ Len(sIndices) = 2
  /\ sIndices[2][1] < sIndices[1][1]
  /\ sOut.first = sIndices[1]
  /\ WindowStart > 0
  /\ WindowEnd < Len(sText)

\* C18: the snippet text, the ellipsis markers not counted, is at most
\* maxLength characters long, with matches and without.
C18_SnippetWithinMaxLength ==
  sOut.op = "buildSnippet" => Len(sOut.snippet) <= sOut.maxLength

\* The spans received are as the matcher reports them: inclusive ranges of
\* the text, 0 <= start <= end < length.
SpansWellFormed ==
  \A i \in 1..Len(sIndices) :
    /\ 0 <= sIndices[i][1]
    /\ sIndices[i][1] <= sIndices[i][2]
    /\ sIndices[i][2] < Len(sText)

\* C22: after re-mapping to the window every span handed to the highlighter
\* lies inside the window, 0 <= start <= end < windowLength: a span whose
\* adjusted offsets are negative or out of range is discarded, a span that
\* only partly overlaps the window included.
C22_AdjustedSpansInsideWindow ==
  (sOut.op = "buildSnippet" /\ sOut.matched /\ SpansWellFormed) =>
    \A i \in 1..Len(sOut.adjusted) :
      /\ 0 <= sOut.adjusted[i][1]
      /\ sOut.adjusted[i][1] <= sOut.adjusted[i][2]
      /\ sOut.adjusted[i][2] < Len(sOut.snippet)

\* The text highlightMatches worked on: the snippet inside buildSnippet.
Highlighted == IF sOut.op = "buildSnippet" THEN sOut.snippet ELSE sText

\* C23: the regions highlightMatches emits are non-empty, lie within the
\* text, are pairwise disjoint and strictly increasing: a span whose clamped
\* start lies before the cursor is skipped and the cursor, the end of the
\* last region, never moves backward.
C23_RegionsDisjointIncreasing ==
  sOut.op \in {"highlightMatches", "buildSnippet"} =>
    /\ \A i \in 1..Len(sOut.regions) :
         /\ 0 <= sOut.regions[i][1]
         /\ sOut.regions[i][1] < sOut.regions[i][2]
         /\ sOut.regions[i][2] <= Len(Highlighted)
    /\ \A i, j \in 1..Len(sOut.regions) :
         i < j =>
           /\ sOut.regions[i][2] <= sOut.regions[j][1]
           /\ sOut.regions[i][1] < sOut.regions[j][1]
           /\ sOut.regions[i][2] < sOut.regions[j][2]

\* Two spans inside the text, received out of order, the later one starting
\* inside the earlier one: one region is emitted and the other is skipped.
C23_Witness ==
  /\ sOut.op = "highlightMatches"
  /\ SpansWellFormed
  /\ Len(sIndices) = 2
  /\ sIndices[2][1] < sIndices[1][1]
  /\ sIndices[1][1] <= sIndices[2][2]
  /\ sOut.regions = <<<<sIndices[2][1], sIndices[2][2] + 1>>>>

\* C19: in a single-select accordion (multiple = false) at most one item is
\* open, for every defaultOpen and after any sequence of calls.
C19_SingleSelectOneOpen == ~multiple => Len(openItems) <= 1

(***************************************************************************)
(* The layers of loadSearchIndex.                                          *)
(***************************************************************************)
\* The call that started in this step, if one did: a new record in flight, or
\* the record of a call that settled at once.
Started ==
  IF BagCardinality(calls') = BagCardinality(calls) + 1
    THEN {c \in BagToSet(calls') : CopiesIn(c, calls') > CopiesIn(c, calls)}
  ELSE IF calls' = calls /\ last'.op = "end" THEN {last'.call}
  ELSE {}

\* The call ran loadSearchIndex: a direct call, or a query/preload that read
\* the fuzzy-structure cache, missed, and went on to the index cache.
RanLoad(c) ==
  \/ c.kind = "load"
  \/ c.kind \in {"query", "preload"} /\ c.acc.memRead = 2

\* The durable store holds a usable index for the key.
Stored(cacheKey) ==
  storageOK /\ ParseStored(storage[StorageKey(cacheKey)]) # Absent

\* The record, after this step, of a call whose fetch succeeded in this step.
FetchedNow ==
  { c1 \in BagToSet(calls') \cup {last'.call} :
      /\ c1.fetched = "ok"
      /\ \E c0 \in InFlight :
           /\ c0.pc = "fetching"
           /\ CopiesIn(c0, calls') < CopiesIn(c0, calls)
           /\ c1.client = c0.client /\ c1.kind = c0.kind /\ c1.text = c0.text
      /\ \/ c1.pc = "haveIndex" /\ CopiesIn(c1, calls') > CopiesIn(c1, calls)
         \/ c1 = last'.call /\ c1.pc = "resolved" }

LayersInOrder ==
  /\ \A c \in Started :
       RanLoad(c) =>
         LET cacheKey == c.client.url
         IN /\ indexCache[cacheKey] # Absent =>
                 /\ c.acc.storeRead = 0
                 /\ c.acc.fetch = 0
                 /\ c.index = indexCache[cacheKey]
            /\ c.acc.storeRead > 0 =>
                 indexCache[cacheKey] = Absent /\ c.client.useStorage
            /\ (indexCache[cacheKey] = Absent /\ c.client.useStorage /\ storageOK)
                 => c.acc.storeRead = 1
            /\ c.acc.fetch > 0 =>
                 /\ c.acc.fetch = 1
                 /\ indexCache[cacheKey] = Absent
                 /\ c.client.useStorage => ~Stored(cacheKey)
            /\ (indexCache[cacheKey] = Absent /\ c.pc # "rejected"
                  /\ ~(c.client.useStorage /\ Stored(cacheKey)))
                 => c.acc.fetch = 1 /\ c.pc = "fetching"
            /\ (indexCache[cacheKey] = Absent /\ c.client.useStorage
                  /\ Stored(cacheKey) /\ c.pc # "rejected") =>
                 /\ c.acc.fetch = 0
                 /\ c.index = ParseStored(storage[StorageKey(cacheKey)])
                 /\ indexCache'[cacheKey] = c.index
            /\ storage' = storage
  /\ \A c \in FetchedNow :
       LET cacheKey == c.client.url
       IN /\ indexCache'[cacheKey] = Index(cacheKey)
          /\ c.index = Index(cacheKey)
          /\ c.acc.memWrite >= 1
          /\ IF c.client.useStorage /\ storageOK
               THEN /\ c.acc.storeWrite = 1
                    /\ storage'[StorageKey(cacheKey)]
                         \in {Stringify(Index(cacheKey)), storage[StorageKey(cacheKey)]}
               ELSE /\ c.acc.storeWrite = 0
                    /\ storage' = storage

\* C20: loadSearchIndex reads the in-memory index cache first, the durable
\* store only after a miss there and only with useStorage, and fetches only
\* when both missed; a store hit is copied into the in-memory cache without a
\* fetch; a successful fetch is written to the in-memory cache and, with
\* useStorage, to the durable store.
C20_LayersInOrder == [][LayersInOrder]_vars

\* A direct load missed the in-memory cache and the durable store, fetched
\* the index and left it in both.
C20_Witness ==
  /\ last.op = "end"
  /\ last.call.kind = "load"
  /\ last.call.fetched = "ok"
  /\ last.call.acc.storeRead = 1
  /\ last.call.acc.storeWrite = 1
  /\ storage[StorageKey(last.key)] = Stringify(Index(last.key))
  /\ indexCache[last.key] = Index(last.key)

(***************************************************************************)
(* Properties of the shared caches under overlapping calls.                *)
(***************************************************************************)
\* A query or preload that found no structure in fuseCache when it started
\* (it went on to loadSearchIndex, the second read of memory) and resolved.
MissedFuse(call) ==
  /\ call.kind \in {"query", "preload"}
  /\ call.pc = "resolved"
  /\ call.acc.memRead >= 2

\* C21: getFuse has no duplicate-build suppression: every query()/preload()
\* that found no cached structure when it started builds its own structure
\* from its index and its client's options, also when an overlapping call
\* cached one meanwhile, and when it finishes the entry of fuseCache for the
\* key is the structure it built (the call that finishes last wins).
C21_LastBuilderWins ==
  (last.op = "end" /\ MissedFuse(last.call)) =>
    /\ last.call.acc.build = 1
    /\ last.call.fuse = NewFuse(last.call.index, last.call.client.opts)
    /\ fuseCache[last.key] = last.call.fuse

\* Two calls for the same key overlapped: one built its structure, cached it
\* and finished, while the other, which started before that entry existed,
\* holds the index and is about to build a structure with other options.
C21_Witness ==
  /\ last.op = "end"
  /\ MissedFuse(last.call)
  /\ fuseCache[last.key] = last.call.fuse
  /\ \E c \in InFlight :
       /\ c.client.url = last.key
       /\ c.kind \in {"query", "preload"}
       /\ c.pc = "haveIndex"
       /\ c.acc.memRead >= 2
       /\ c.client.opts # last.call.client.opts

\* The keys a clear of `cacheKey` removes (all of them without argument).
ClearedKeys(cacheKey) == {u \in URLs : cacheKey \in {u, NoKey}}

\* A step taken by a call that was already in flight: no call is added and
\* the collection of calls changes.
InFlightStep ==
  /\ calls' # calls
  /\ BagCardinality(calls') <= BagCardinality(calls)

\* Right after a clear every call in flight started before it: its next step
\* leaves the cleared keys without entry.
NoPutBack ==
  (last.op = "clear" /\ InFlightStep) =>
    \A u \in ClearedKeys(last.key) :
      /\ indexCache'[u] = Absent
      /\ fuseCache'[u] = NoFuse

\* C24: once clearSearchCache(key) or client.clearCache() has returned,
\* neither indexCache nor fuseCache holds an entry for the key until a call
\* that started after the clear completes: a load that was in flight when the
\* clear ran does not put the entry back.
C24_NoPutBack == [][NoPutBack]_vars

\* C25: every key of fuseCache is also a key of indexCache.
C25_FuseKeysAreIndexKeys ==
  \A u \in URLs : fuseCache[u] # NoFuse => indexCache[u] # Absent

\* The step in which the fetch of call c fails and the call rejects.
FetchFails(c) ==
  /\ c.pc = "fetching"
  /\ calls' = calls (-) SetToBag({c})
  /\ last'.op = "end"
  /\ last'.call.pc = "rejected"
  /\ last'.call.why = "fetch"

FailureChangesNothing ==
  \A c \in InFlight :
    FetchFails(c) =>
      /\ indexCache' = indexCache
      /\ fuseCache' = fuseCache
      /\ storage' = storage

\* C26: when the fetch of the index fails during query(), preload() or
\* loadSearchIndex(), the call rejects and indexCache, fuseCache and the
\* durable store are left as they were, so that nothing stops the next call
\* from fetching again.
C26_FailureChangesNothing == [][FailureChangesNothing]_vars

\* A call rejected by a failed fetch; no layer holds an entry for its key.
C26_Witness ==
  /\ last.op = "end"
  /\ last.call.pc = "rejected"
  /\ last.call.why = "fetch"
  /\ last.call.fetched \in {"http", "net", "body"}
  /\ indexCache[last.key] = Absent
  /\ fuseCache[last.key] = NoFuse
  /\ storage[StorageKey(last.key)] = NoItem

\* C27: the structure a client's query() searches was built with that
\* client's own merged options, whichever client loaded the index URL first.
C27_OwnOptions ==
  (last.op = "end" /\ last.call.kind = "query" /\ last.call.pc = "resolved"
     /\ last.call.fuse # NoFuse) =>
    last.call.fuse.opts = last.call.client.opts

(***************************************************************************)
(* Properties of the promises and the loading flag of useSearch.           *)
(***************************************************************************)
\* The promise query() returned for call id has settled.
PromiseSettled(id) == searches[id].stage \in {"returned", "resolved"}

\* C28: every promise returned by query() of useSearch eventually settles,
\* provided timers fire and client.query calls complete, a call superseded by
\* a later query() or by clear() before its debounce timer fires included.
C28_EveryPromiseSettles ==
  \A id \in SearchIds : (searches[id].stage # "none") ~> PromiseSettled(id)

\* No debounce timer is pending and no client.query started by the hook is
\* in flight.
HookQuiet == \A id \in SearchIds : searches[id].stage \notin {"timer", "querying"}

\* C29: whenever no debounce timer is pending and no client.query started by
\* the hook is in flight, isLoading is false.
C29_QuietMeansNotLoading == HookQuiet => ~isLoading

(***************************************************************************)
(* Properties of the Icon component.                                       *)
(***************************************************************************)
\* What the icon of the current props is the icon of.
CurrentOrigin ==
  IF HasText(iconProps.svg) THEN iconProps.svg.of
  ELSE IF iconProps.url # "" THEN UrlOrigin(iconProps.url)
  ELSE LibraryOrigin(iconProps.library, iconProps.name)

\* The current source is a URL or a library icon, the two that are fetched.
Fetched(props) ==
  /\ ~HasText(props.svg)
  /\ props.url # "" \/ (props.library # "" /\ props.name # "")

IconShown == Shown(iconProps, fetchedSvg, loading, iconError)

\* C30: when the source of an Icon changes while a fetch for the previous
\* source is in flight, the SVG shown once every fetch has settled is the one
\* of the current source, in whatever order the responses arrive: a response
\* for a previous source never replaces the content of the current one.
C30_CurrentSourceShown ==
  (requests = EmptyBag /\ Fetched(iconProps) /\ IconShown.shows = "svg") =>
    IconShown.of = CurrentOrigin
=============================================================================
